---- MODULE Spec2Model ----
(***************************************************************************)
(* Verification model of the browser image utility suite                   *)
(* (DannyNi1987/image-conversion): ImageUtils, ImageCompressor,            *)
(* ImageConverter and the batch loops of the processors.                   *)
(*                                                                         *)
(* Numbers.  JavaScript numbers are modelled by exact integers/rationals:  *)
(*  - pixel sizes are integers; a quotient is a pair (numerator,           *)
(*    denominator) that is only rounded where the code calls Math.round;   *)
(*  - an encode quality q is the integer q * QScale (QScale = 3200, so     *)
(*    0.1, every percentage and five successive midpoints are exact);      *)
(*  - the shrink factor of compressByResizing is a 12-digit decimal kept   *)
(*    in two 6-digit limbs, exact for 0.9^k, k <= 12.                      *)
(* Where the IEEE-754 result can differ from the exact one (a comparison   *)
(* or a rounding that is an exact tie in the rationals) the model allows   *)
(* both outcomes.                                                          *)
(***************************************************************************)
EXTENDS Integers, Naturals, Sequences, FiniteSets, TLC

VARIABLES
    \* ---- ImageUtils.calculateResizedDimensions, applied to drawn inputs
    rPc,        \* "idle" | "done"
    rIn,        \* the arguments of the call
    rOut        \* the returned {width, height}

VARIABLES
    \* ---- one ImageCompressor.compressImage call
    cPc,        \* "idle" | "decode" | "encode" | "iterate" | "search" | "resize" | "done" | "threw"
    cFile,      \* the file argument
    cOpts,      \* the options argument
    cCanvas,    \* the canvas compressImage draws the image on (the starting canvas)
    cEnc,       \* how the runtime's encoder sizes the starting canvas, per quality
    cBlob,      \* local blob: the blob of the latest encode
    cMinQ,      \* iterateCompression: minQuality
    cMaxQ,      \* iterateCompression: maxQuality
    cBestBlob,  \* iterateCompression: bestBlob
    cBestQ,     \* iterateCompression: bestQuality
    cCur,       \* compressByResizing: currentCanvas
    cScale,     \* compressByResizing: scale
    cTried,     \* history: the blobs iterateCompression encoded
    cShrunk,    \* history: the canvases compressByResizing encoded, in order
    cQIters,    \* history: iterations of the quality loop
    cRIters,    \* history: iterations of the downscale loop
    cEncodes,   \* history: canvasToBlob calls of this compressImage call
    cResult,    \* the blob of the returned result, NoBlob before the return
    cError      \* "none" | "validate" | "decode" | "encode": why the call threw

VARIABLES
    \* ---- the runtime (browser and page)
    runtimeFormats,  \* the MIME types canvas.toBlob / toDataURL can encode
    progressElement, \* what document.getElementById('progress') returns
    progressShown,   \* what updateProgress last wrote into that element
    \* ---- one batch call (convertImages, compressImages, addWatermarks,
    \*      processGIFs, processVideos, readMultipleEXIF)
    bPc,        \* "idle" | "loop" | "await" | "done" | "rejected"
    bOp,        \* which batch method runs
    bFiles,     \* the files argument
    bTarget,    \* convertImages: targetFormat
    bOperation, \* processGIFs: options.operation
    bI,         \* the loop index i, counted from 1
    bItem,      \* the file the awaited single-file call was given
    bResults,   \* const results
    bErrors,    \* const errors
    bOutcome,   \* the returned { results, errors, total, success, failed }
    bThrew,     \* history: the indices whose single-file call threw
    \* ---- the page: ImageProcessorApp and processConvert
    appSelectedFiles,   \* app.selectedFiles
    winSelectedFiles,   \* window.selectedFiles (<<>> also stands for undefined)
    btnDisabled,        \* the .process-btn of the tab that is processed is disabled
    notifications,      \* the notifications shown, in order
    uPc,                \* processConvert: "idle" | "await" | "done" | "threw"
    uFiles,             \* processConvert: what const files held when it was called
    uLive,              \* const files is the array app.selectedFiles still refers to
    uTarget,            \* processConvert: const targetFormat
    uSelections         \* history: handleFileSelection calls so far

VARIABLES
    \* ---- one call of a single-file entry point, up to its decode
    ePc,            \* "idle" | "decode" | "done" | "threw"
    eEntry,         \* which entry point was called
    eFile,          \* the file argument
    eOperation,     \* processGIF: options.operation
    eDecodeStarted  \* an image element was created for the file

VARIABLES
    \* ---- the ImageCropper (window.imageCropper) and its control panel
    kPc,            \* "idle" | "ready" | "threw": no image yet, initCrop done, initCrop threw
    kImage,         \* originalImage: naturalWidth x naturalHeight
    cropCanvas,     \* cropCanvas.width x cropCanvas.height (the display canvas)
    cropBox,        \* cropBox {x, y, width, height}, each in 1/CropUnit pixels
    aspectRatio,    \* this.aspectRatio
    kCrop,          \* what the latest applyCrop computed: cropX, cropY, cropWidth, cropHeight
    kLast,          \* history: the latest operation on the cropper
    kEdited,        \* history: a control-panel input has written into cropBox
    kMove,          \* history: the latest moveCropBox call, its deltas and the cropBox it found
    kFound,         \* history: the cropBox and the image the latest processCrop call found
    kSteps          \* history: operations on the cropper so far

VARIABLES
    \* ---- one WatermarkProcessor.addTextWatermark / addImageWatermark call
    mPc,            \* "idle" | "done"
    mIn,            \* the canvas size, the watermark, position, padding, rotation
    mOrigin,        \* positionCoords: what calculatePosition returned
    mBox            \* the rectangle the draw call covers on the canvas

VARIABLES
    \* ---- one GIFProcessor.extractFrames call and one getGIFInfo call on its file
    gPc,            \* "idle" | "decode" | "encode" | "resolved" | "rejected"
    gImage,         \* img.naturalWidth x img.naturalHeight
    gFrameCount,    \* const frameCount
    gPending,       \* the loop indices i whose canvas.toBlob callback has not run yet
    gFrames,        \* const frames
    gResolved,      \* the array the promise resolved with
    gInfo           \* the frameCount getGIFInfo resolved with, -1 before

VARIABLES
    \* ---- EXIFProcessor.processEXIFData and getGPSCoordinates on its result
    xPc,            \* "idle" | "processed" | "located"
    xRaw,           \* rawData: a function from tag names to values
    xData,          \* processedData: per category a function from tag names to entries
    xCoords         \* what getGPSCoordinates returned

VARIABLES
    \* ---- one VideoProcessor and the processVideo calls made on it.  Call c
    \*      creates video element c and canvas c.
    vThis,          \* this.videoElement / this.canvas / this.ctx: the call that created them, 0 = null
    vPc,            \* per call: "idle" | "loading" | "sampling" | "output" | "resolved" | "rejected"
    vIn,            \* per call: the file and the options
    vVideo,         \* per call: const video / canvas / ctx of processVideoFrames, 0 before it ran
    vFrame,         \* per call: currentFrame
    vFrames,        \* per call: const frames
    vToBlob,        \* per call: the drawn frames whose canvas.toBlob callback has not run yet
    vSeeks,         \* per call, history: the seeks its captureFrame issued, in order
    vResult,        \* per call: what the promise resolved with
    vError,         \* per call: "none" | "load" | "noframes" | "format": why it rejected
    vReady,         \* per element: "none" | "loading" | "metadata" | "error"
    vOnSeeked,      \* per element: the call whose handler video.onseeked holds, 0 = none
    vSeeking,       \* per element: the seek in progress
    vTime,          \* per element: currentTime
    vCanvas         \* per canvas: width x height

VARIABLES
    \* ---- the ImageCompressor's presets and its smartCompress calls
    compressionLevels,  \* this.compressionLevels: per level its options object
    sPc,                \* the latest smartCompress call: "none" | "compress" | "threw"
    sIn,                \* its file and its targetSize (0 = not given)
    sOptions,           \* the options it gave to compressImage
    sCalls              \* history: smartCompress calls so far

resizeVars == <<rPc, rIn, rOut>>

smartVars == <<compressionLevels, sPc, sIn, sOptions, sCalls>>

videoVars == <<vThis, vPc, vIn, vVideo, vFrame, vFrames, vToBlob, vSeeks, vResult, vError,
               vReady, vOnSeeked, vSeeking, vTime, vCanvas>>

cropVars == <<kPc, kImage, cropCanvas, cropBox, aspectRatio, kCrop, kLast, kEdited, kMove,
             kFound, kSteps>>

markVars == <<mPc, mIn, mOrigin, mBox>>

gifVars == <<gPc, gImage, gFrameCount, gPending, gFrames, gResolved, gInfo>>

exifVars == <<xPc, xRaw, xData, xCoords>>

toolVars == <<cropVars, markVars, gifVars, exifVars, videoVars, smartVars>>


runtimeVars == <<runtimeFormats, progressElement, progressShown>>

batchVars == <<bPc, bOp, bFiles, bTarget, bOperation, bI, bItem, bResults, bErrors, bOutcome,
              bThrew>>

pageVars == <<appSelectedFiles, winSelectedFiles, btnDisabled, notifications, uPc, uFiles,
             uLive, uTarget, uSelections>>

entryVars == <<ePc, eEntry, eFile, eOperation, eDecodeStarted>>

compressVars == <<cPc, cFile, cOpts, cCanvas, cEnc, cBlob, cMinQ, cMaxQ, cBestBlob, cBestQ,
                  cCur, cScale, cTried, cShrunk, cQIters, cRIters, cEncodes, cResult, cError>>

baseVars == <<resizeVars, compressVars, runtimeVars, batchVars, pageVars, entryVars>>

vars == <<baseVars, toolVars>>

\* what the actions of one component leave unchanged
cropRest == <<baseVars, markVars, gifVars, exifVars, videoVars, smartVars>>
markRest == <<baseVars, cropVars, gifVars, exifVars, videoVars, smartVars>>
gifRest == <<baseVars, cropVars, markVars, exifVars, videoVars, smartVars>>
exifRest == <<baseVars, cropVars, markVars, gifVars, videoVars, smartVars>>
videoRest == <<baseVars, cropVars, markVars, gifVars, exifVars, smartVars>>
smartRest == <<baseVars, cropVars, markVars, gifVars, exifVars, videoVars>>

(***************************************************************************)
(* Bounds of the model                                                     *)
(***************************************************************************)
MaxDim == 6         \* natural image sizes 1..MaxDim in the resize model
MaxBox == 6         \* max-width / max-height boxes 0..MaxBox (0 = not set)
MaxSide == 2        \* small image sides 1..MaxSide in the compress model
BigSide == 1000     \* a side large enough to survive every downscale step
MaxBlob == 3        \* blob sizes 512 * (1..MaxBlob) bytes
MaxKB == 1          \* maxFileSize option 0..MaxKB (KB, 0 = no ceiling)
MaxFiles == 3       \* files per batch call / per selection 0..MaxFiles
MaxSelect == 1      \* handleFileSelection calls per behaviour
MaxGestures == 3    \* operations on the cropper per behaviour
MaxDelta == 1       \* drag deltas -MaxDelta..MaxDelta pixels per axis
MaxPadding == 2     \* watermark padding 0..MaxPadding pixels
MaxGifSide == 3     \* natural GIF sizes 1..MaxGifSide per side
MaxCalls == 2       \* processVideo calls on the VideoProcessor per behaviour
MaxLength == 2      \* video lengths 1..MaxLength seconds
MaxStart == 1       \* options.startTime 0..MaxStart seconds
MaxDuration == 2    \* options.duration 0..MaxDuration seconds
MaxSmart == 3       \* smartCompress calls per behaviour
MaxTarget == 2      \* targetSize 0..MaxTarget KiB (0 = not given)

CanvasSides == 1..MaxSide \cup {BigSide}

(***************************************************************************)
(* Arithmetic helpers                                                      *)
(***************************************************************************)
RECURSIVE GCD(_, _)
GCD(a, b) == IF b = 0 THEN a ELSE GCD(b, a % b)

RECURSIVE IsPow2(_)
IsPow2(n) == IF n = 1 THEN TRUE ELSE IF n % 2 # 0 THEN FALSE ELSE IsPow2(n \div 2)

\* A rational number n/d, d > 0.
Rat(n, d) == [n |-> n, d |-> d]

RatGT(a, b) == a.n * b.d > b.n * a.d

\* Math.round of the exact value n/d (n >= 0, d > 0): round half up.
MathRound(n, d) == (2 * n + d) \div (2 * d)

\* n/d is exactly half-way between two integers.
IsTie(n, d) == (2 * n) % (2 * d) = d

\* originalWidth / originalHeight is exactly representable as a double when
\* the reduced denominator is a power of two; every later product or quotient
\* with it that has a representable exact value is then exact too.
RatioExact(ow, oh) == IsPow2(oh \div GCD(ow, oh))

\* Math.round of a value the code computed through the floating-point ratio:
\* the exact rounding, or either neighbour when the exact value is a tie and
\* the ratio was rounded.
RoundComputed(x, exact) ==
    IF IsTie(x.n, x.d) /\ ~exact
    THEN {x.n \div x.d, x.n \div x.d + 1}
    ELSE {MathRound(x.n, x.d)}

Min(a, b) == IF a <= b THEN a ELSE b

\* n/d in lowest terms
RatNorm(a) ==
    LET g == GCD(IF a.n < 0 THEN -a.n ELSE a.n, a.d)
    IN  Rat(a.n \div g, a.d \div g)

RatAdd(a, b) == RatNorm(Rat(a.n * b.d + b.n * a.d, a.d * b.d))

RatSub(a, b) == RatNorm(Rat(a.n * b.d - b.n * a.d, a.d * b.d))

RatLE(a, b) == a.n * b.d <= b.n * a.d

RatMin(a, b) == IF RatLE(a, b) THEN a ELSE b

(***************************************************************************)
(* ImageUtils.calculateResizedDimensions                                   *)
(* maxWidth / maxHeight = 0 stands for every falsy value (null, 0).        *)
(* The result is the set of {width, height} the call can return.           *)
(***************************************************************************)
\* the width clamp without the recomputation of the height
ClampWidthKeepsHeight(ow, oh, maxWidth, wh) ==
    IF RatGT(wh.w, Rat(maxWidth, 1))
    THEN [w |-> Rat(maxWidth, 1), h |-> wh.h, wc |-> FALSE, hc |-> FALSE]
    ELSE wh

\* first clamp: if (width > maxWidth) { width = maxWidth; height = width / aspectRatio; }
ClampWidth(ow, oh, maxWidth, wh) ==
    IF RatGT(wh.w, Rat(maxWidth, 1))
    THEN [w |-> Rat(maxWidth, 1), h |-> Rat(maxWidth * oh, ow), wc |-> FALSE, hc |-> TRUE]
    ELSE wh

\* the two-pass clamp without its second pass
ClampHeightSkipped(ow, oh, maxHeight, wh) == wh

\* second clamp: if (height > maxHeight) { height = maxHeight; width = height * aspectRatio; }
ClampHeight(ow, oh, maxHeight, wh) ==
    IF RatGT(wh.h, Rat(maxHeight, 1))
    THEN [w |-> Rat(maxHeight * ow, oh), h |-> Rat(maxHeight, 1), wc |-> TRUE, hc |-> FALSE]
    ELSE wh

calculateResizedDimensions(originalWidth, originalHeight, maxWidth, maxHeight, keepAspectRatio) ==
    IF maxWidth = 0 /\ maxHeight = 0
    THEN {[width |-> originalWidth, height |-> originalHeight]}
    ELSE
      LET start == [w |-> Rat(originalWidth, 1), h |-> Rat(originalHeight, 1),
                    wc |-> FALSE, hc |-> FALSE]
          exact == RatioExact(originalWidth, originalHeight)
          kept ==
            IF maxWidth # 0 /\ maxHeight # 0
            THEN ClampHeight(originalWidth, originalHeight, maxHeight,
                             ClampWidth(originalWidth, originalHeight, maxWidth, start))
            ELSE IF maxWidth # 0
            THEN ClampWidth(originalWidth, originalHeight, maxWidth, start)
            ELSE ClampHeight(originalWidth, originalHeight, maxHeight, start)
          free ==
            [w |-> Rat(IF maxWidth # 0 THEN Min(originalWidth, maxWidth) ELSE originalWidth, 1),
             h |-> Rat(IF maxHeight # 0 THEN Min(originalHeight, maxHeight) ELSE originalHeight, 1),
             wc |-> FALSE, hc |-> FALSE]
          wh == IF keepAspectRatio THEN kept ELSE free
      IN  {[width |-> w, height |-> h] :
              w \in RoundComputed(wh.w, exact \/ ~wh.wc),
              h \in RoundComputed(wh.h, exact \/ ~wh.hc)}

(***************************************************************************)
(* Specification of the resize computation                                 *)
(***************************************************************************)
NoResize == [width |-> 0, height |-> 0]

ResizeInputs ==
    [ow : 1..MaxDim, oh : 1..MaxDim, mw : 0..MaxBox, mh : 0..MaxBox, keep : BOOLEAN]
    \cup {[ow |-> 2000, oh |-> 1000, mw |-> 1000, mh |-> 1000, keep |-> TRUE]}

InitResize ==
    /\ rPc = "idle"
    /\ rIn = [ow |-> 1, oh |-> 1, mw |-> 0, mh |-> 0, keep |-> TRUE]
    /\ rOut = NoResize

\* one call of calculateResizedDimensions on drawn arguments
CallResize ==
    /\ rPc = "idle"
    /\ \E in \in ResizeInputs :
         /\ rIn' = in
         /\ \E out \in calculateResizedDimensions(in.ow, in.oh, in.mw, in.mh, in.keep) :
              rOut' = out
    /\ rPc' = "done"

(***************************************************************************)
(* Files and ImageUtils.validateFile                                       *)
(***************************************************************************)
supportedFormats == {"image/jpeg", "image/png", "image/webp", "image/avif", "image/gif"}

maxFileSize == 50 * 1024 * 1024

\* validateFile(file): "none" when it returns true, otherwise which check threw.
validateFile(file) ==
    IF file.type \notin supportedFormats THEN "format"
    ELSE IF file.size > maxFileSize THEN "size"
    ELSE "none"

(***************************************************************************)
(* Canvas encoding                                                         *)
(***************************************************************************)
QScale == 100 * 32                  \* quality q is the integer q * QScale
Q(percent) == percent * (QScale \div 100)

NoBlob == [size |-> -1, quality |-> 0, width |-> 0, height |-> 0]

\* Blob sizes, in bytes, that an encode can produce in the model.
BlobSizes == {512 * k : k \in 1..MaxBlob}

\* How the encoder sizes the starting canvas: a size that is non-decreasing in
\* the quality (two plateaus, lo up to quality thr and hi above it).
Encoders == {e \in [thr : {0, Q(10), Q(30), Q(60), Q(100)}, lo : BlobSizes, hi : BlobSizes] :
                e.lo <= e.hi}

EncSize(enc, quality) == IF quality <= enc.thr THEN enc.lo ELSE enc.hi

\* ImageUtils.canvasToBlob: canvas.toBlob hands null to the callback when the
\* canvas has no pixels, otherwise a blob of the size the encoder produces.
canvasToBlob(canvas, quality, size) ==
    IF canvas.width = 0 \/ canvas.height = 0
    THEN NoBlob
    ELSE [size |-> size, quality |-> quality, width |-> canvas.width, height |-> canvas.height]

(***************************************************************************)
(* compressByResizing: the shrink factor, a 12-digit decimal in two limbs  *)
(***************************************************************************)
Limb == 10 ^ 6

ScaleStart == [hi |-> 900000, lo |-> 0]                 \* let scale = 0.9

\* scale *= 0.9
ScaleTimes09(s) ==
    LET tenthHi == s.hi \div 10
        tenthLo == (s.hi % 10) * (Limb \div 10) + s.lo \div 10
        lo9 == tenthLo * 9
    IN  [hi |-> tenthHi * 9 + lo9 \div Limb, lo |-> lo9 % Limb]

\* scale > 0.3
ScaleAboveFloor(s) == s.hi > 300000 \/ (s.hi = 300000 /\ s.lo > 0)

\* Math.round(side * scale)
RoundScaled(side, s) ==
    LET a == side * s.hi + (side * s.lo) \div Limb
    IN  a \div Limb + (IF a % Limb >= Limb \div 2 THEN 1 ELSE 0)

(***************************************************************************)
(* ImageCompressor.compressImage                                           *)
(***************************************************************************)
QMin == Q(10)                       \* let minQuality = 0.1, and the floor quality
QGap == Q(5)                        \* while (maxQuality - minQuality > 0.05)

NoCanvas == [width |-> 0, height |-> 0]
NoFile == [name |-> "", type |-> "", size |-> 0, width |-> 0, height |-> 0, corrupt |-> FALSE]
NoOpts == [quality |-> 0, maxWidth |-> 0, maxHeight |-> 0, maxFileSize |-> 0,
           keepAspectRatio |-> TRUE]
NoEnc == [thr |-> 0, lo |-> 0, hi |-> 0]

CompressFiles ==
    [name : {"a.jpg"}, type : {"image/jpeg", "image/bmp"}, size : {2048, maxFileSize + 1},
     width : CanvasSides, height : CanvasSides, corrupt : BOOLEAN]

CompressOptions ==
    [quality : {Q(p) : p \in {5, 15, 50, 90, 100}}, maxWidth : {0, MaxBox}, maxHeight : {0},
     maxFileSize : 0..MaxKB, keepAspectRatio : {TRUE}]

InitCompress ==
    /\ cPc = "idle"
    /\ cFile = NoFile
    /\ cOpts = NoOpts
    /\ cCanvas = NoCanvas
    /\ cEnc = NoEnc
    /\ cBlob = NoBlob
    /\ cMinQ = 0
    /\ cMaxQ = 0
    /\ cBestBlob = NoBlob
    /\ cBestQ = 0
    /\ cCur = NoCanvas
    /\ cScale = ScaleStart
    /\ cTried = {}
    /\ cShrunk = <<>>
    /\ cQIters = 0
    /\ cRIters = 0
    /\ cEncodes = 0
    /\ cResult = NoBlob
    /\ cError = "none"

targetSize == cOpts.maxFileSize * 1024

\* the call throws: catch (error) { throw new Error(...) }
CompressThrows(why) ==
    /\ cPc' = "threw"
    /\ cError' = why

\* the call returns { blob, ..., newSize: blob.size, ... }
CompressReturns(blob) ==
    /\ cPc' = "done"
    /\ cResult' = blob
    /\ cError' = "none"

\* compressImage(file, options) up to its first await: validateFile, then the
\* image element is created.
CompressImage ==
    /\ cPc = "idle"
    /\ \E file \in CompressFiles, options \in CompressOptions :
         /\ cFile' = file
         /\ cOpts' = options
         /\ IF validateFile(file) # "none"
            THEN CompressThrows("validate")
            ELSE cPc' = "decode" /\ UNCHANGED cError
    /\ UNCHANGED <<cCanvas, cEnc, cBlob, cMinQ, cMaxQ, cBestBlob, cBestQ, cCur, cScale,
                   cTried, cShrunk, cQIters, cRIters, cEncodes, cResult>>

\* createImageElement rejects (img.onerror)
CompressImageLoadFails ==
    /\ cPc = "decode"
    /\ cFile.corrupt
    /\ CompressThrows("decode")
    /\ UNCHANGED <<cFile, cOpts, cCanvas, cEnc, cBlob, cMinQ, cMaxQ, cBestBlob, cBestQ, cCur,
                   cScale, cTried, cShrunk, cQIters, cRIters, cEncodes, cResult>>

\* createImageElement resolves: the new size is computed, the canvas is
\* created and drawn, and the first canvasToBlob is started.
CompressImageLoaded ==
    /\ cPc = "decode"
    /\ ~cFile.corrupt
    /\ \E dims \in calculateResizedDimensions(cFile.width, cFile.height, cOpts.maxWidth,
                                              cOpts.maxHeight, cOpts.keepAspectRatio),
          enc \in Encoders :
         /\ cCanvas' = dims
         /\ cEnc' = enc
    /\ cPc' = "encode"
    /\ UNCHANGED <<cFile, cOpts, cBlob, cMinQ, cMaxQ, cBestBlob, cBestQ, cCur, cScale,
                   cTried, cShrunk, cQIters, cRIters, cEncodes, cResult, cError>>

\* let blob = await canvasToBlob(canvas, file.type, quality), then either the
\* call of iterateCompression or the return.  A null blob makes blob.size throw.
CompressFirstEncode ==
    /\ cPc = "encode"
    /\ LET blob == canvasToBlob(cCanvas, cOpts.quality, EncSize(cEnc, cOpts.quality))
       IN  /\ cBlob' = blob
           /\ cEncodes' = cEncodes + 1
           /\ IF blob = NoBlob
              THEN CompressThrows("encode") /\ UNCHANGED cResult
              ELSE IF cOpts.maxFileSize > 0 /\ blob.size > targetSize
              THEN cPc' = "iterate" /\ UNCHANGED <<cResult, cError>>
              ELSE CompressReturns(blob)
    /\ UNCHANGED <<cFile, cOpts, cCanvas, cEnc, cMinQ, cMaxQ, cBestBlob, cBestQ, cCur, cScale,
                   cTried, cShrunk, cQIters, cRIters>>

\* iterateCompression up to the while loop: the encode at initialQuality
IterateCompression ==
    /\ cPc = "iterate"
    /\ LET quality == cOpts.quality
           blob == canvasToBlob(cCanvas, quality, EncSize(cEnc, quality))
       IN  /\ cBlob' = blob
           /\ cEncodes' = cEncodes + 1
           /\ cTried' = cTried \cup {blob}
           /\ IF blob.size <= targetSize
              THEN /\ CompressReturns(blob)
                   /\ UNCHANGED <<cMinQ, cMaxQ, cBestBlob, cBestQ>>
              ELSE /\ cMinQ' = QMin
                   /\ cMaxQ' = quality
                   /\ cBestBlob' = blob
                   /\ cBestQ' = quality
                   /\ cPc' = "search"
                   /\ UNCHANGED <<cResult, cError>>
    /\ UNCHANGED <<cFile, cOpts, cCanvas, cEnc, cCur, cScale, cShrunk, cQIters, cRIters>>

\* the loop test with 0.01 in place of 0.05
SearchGoesOnTo001 == cMaxQ - cMinQ >= Q(1)

\* maxQuality - minQuality > 0.05 can evaluate to true / to false.  When the
\* exact difference is 0.05 the doubles decide (0.9 - 0.1 gives true).
SearchGoesOn == cMaxQ - cMinQ >= QGap
SearchStops == cMaxQ - cMinQ <= QGap

\* one iteration of the binary search over the quality
SearchIteration ==
    /\ cPc = "search"
    /\ SearchGoesOn
    /\ LET quality == (cMinQ + cMaxQ) \div 2
           blob == canvasToBlob(cCanvas, quality, EncSize(cEnc, quality))
       IN  /\ cBlob' = blob
           /\ cEncodes' = cEncodes + 1
           /\ cTried' = cTried \cup {blob}
           /\ cQIters' = cQIters + 1
           /\ IF blob.size <= targetSize
              THEN /\ cBestBlob' = blob
                   /\ cBestQ' = quality
                   /\ cMaxQ' = quality
                   /\ UNCHANGED cMinQ
              ELSE /\ cMinQ' = quality
                   /\ UNCHANGED <<cMaxQ, cBestBlob, cBestQ>>
    /\ UNCHANGED <<cPc, cFile, cOpts, cCanvas, cEnc, cCur, cScale, cShrunk, cRIters,
                   cResult, cError>>

\* the loop is left: return bestBlob, or call compressByResizing
SearchDone ==
    /\ cPc = "search"
    /\ SearchStops
    /\ IF cBestBlob.size > targetSize
       THEN /\ cCur' = cCanvas
            /\ cScale' = ScaleStart
            /\ cPc' = "resize"
            /\ UNCHANGED <<cResult, cError>>
       ELSE /\ CompressReturns(cBestBlob)
            /\ UNCHANGED <<cCur, cScale>>
    /\ UNCHANGED <<cFile, cOpts, cCanvas, cEnc, cBlob, cMinQ, cMaxQ, cBestBlob, cBestQ,
                   cTried, cShrunk, cQIters, cRIters, cEncodes>>

\* one iteration of while (scale > 0.3) in compressByResizing
ResizeIteration ==
    /\ cPc = "resize"
    /\ ScaleAboveFloor(cScale)
    /\ LET newCanvas == [width |-> RoundScaled(cCur.width, cScale),
                         height |-> RoundScaled(cCur.height, cScale)]
       IN  \E size \in BlobSizes :
             LET blob == canvasToBlob(newCanvas, cBestQ, size)
             IN  /\ cBlob' = blob
                 /\ cEncodes' = cEncodes + 1
                 /\ cRIters' = cRIters + 1
                 /\ cShrunk' = Append(cShrunk, newCanvas)
                 /\ IF blob = NoBlob
                    THEN CompressThrows("encode") /\ UNCHANGED <<cCur, cScale, cResult>>
                    ELSE IF blob.size <= targetSize
                    THEN CompressReturns(blob) /\ UNCHANGED <<cCur, cScale>>
                    ELSE /\ cCur' = newCanvas
                         /\ cScale' = ScaleTimes09(cScale)
                         /\ UNCHANGED <<cPc, cResult, cError>>
    /\ UNCHANGED <<cFile, cOpts, cCanvas, cEnc, cMinQ, cMaxQ, cBestBlob, cBestQ, cTried,
                   cQIters>>

\* the loop is left: return await canvasToBlob(currentCanvas, format, 0.1).
\* currentCanvas was encoded at cBestQ before (cBlob); the encoder is
\* non-decreasing in the quality.
ResizeFloor ==
    /\ cPc = "resize"
    /\ ~ScaleAboveFloor(cScale)
    /\ \E size \in BlobSizes :
         /\ QMin <= cBestQ => size <= cBlob.size
         /\ QMin >= cBestQ => size >= cBlob.size
         /\ LET blob == canvasToBlob(cCur, QMin, size)
            IN  /\ cBlob' = blob
                /\ CompressReturns(blob)
    /\ cEncodes' = cEncodes + 1
    /\ UNCHANGED <<cFile, cOpts, cCanvas, cEnc, cMinQ, cMaxQ, cBestBlob, cBestQ, cCur, cScale,
                   cTried, cShrunk, cQIters, cRIters>>


(***************************************************************************)
(* The runtime                                                             *)
(***************************************************************************)
\* document.getElementById('progress'): no such element, an HTML element, or
\* an element without a style property (an element of a foreign namespace).
ProgressElements == {"null", "html", "nostyle"}

\* canvas.toBlob / toDataURL encode PNG always and fall back to PNG for a type
\* the runtime does not support.
Runtimes == {{"image/png", "image/jpeg", "image/webp", "image/avif"},
             {"image/png", "image/jpeg", "image/webp"},
             {"image/png", "image/jpeg"}}

InitRuntime ==
    /\ runtimeFormats \in Runtimes
    /\ progressElement \in ProgressElements
    /\ progressShown = <<>>

\* ImageConverter.checkFormatSupport(format)
checkFormatSupport(format) == format \in runtimeFormats

\* updateProgress(current, total) throws: progressElement.style is undefined
updateProgressThrows == progressElement = "nostyle"

\* updateProgress(current, total): what it leaves in the progress element
\* (current / 0 is Infinity for the current >= 1 of the callers)
updateProgress(current, total) ==
    IF progressElement = "html"
    THEN <<current, total, IF total = 0 THEN "Infinity" ELSE MathRound(current * 100, total)>>
    ELSE progressShown

(***************************************************************************)
(* The checks each single-file entry point makes before it creates the     *)
(* image (or video) element: "none" when it goes on to decode.             *)
(***************************************************************************)
ImageTypes == supportedFormats \cup {"image/bmp"}       \* file.type.startsWith('image/')
VideoTypes == {"video/mp4"}

GifOperations == {"extract", "reverse", "resize", "convert"}

convertImageCheck(file) == validateFile(file)

compressImageCheck(file) == validateFile(file)

initCropCheck(file) == validateFile(file)

addWatermarkCheck(file) == validateFile(file)

createRepeatingWatermarkCheck(file) == "none"

\* processGIF without its test of file.type
processGIFCheckOperationOnly(file, operation) ==
    IF operation \notin GifOperations THEN "operation" ELSE "none"

processGIFCheck(file, operation) ==
    IF file.type # "image/gif" THEN "format"
    ELSE IF operation \notin GifOperations THEN "operation"
    ELSE "none"

processVideoCheck(file) == "none"

readEXIFCheck(file) == IF file.type \notin ImageTypes THEN "format" ELSE "none"

(***************************************************************************)
(* The batch loops                                                         *)
(***************************************************************************)
BatchOps == {"convertImages", "compressImages", "addWatermarks", "processGIFs",
             "processVideos", "readMultipleEXIF"}

TargetFormats == {"image/jpeg", "image/png", "image/webp", "image/avif"}

FileNames == <<"a.jpg", "b.jpg", "c.jpg", "d.jpg", "e.jpg", "f.jpg", "g.jpg", "h.jpg">>

\* type, size and whether the bytes decode
FileKinds ==
    {[type |-> "image/jpeg", size |-> 2048, corrupt |-> FALSE],
     [type |-> "image/gif", size |-> 2048, corrupt |-> FALSE],
     [type |-> "image/bmp", size |-> 2048, corrupt |-> FALSE],
     [type |-> "image/jpeg", size |-> maxFileSize + 1, corrupt |-> FALSE],
     [type |-> "image/jpeg", size |-> 2048, corrupt |-> TRUE],
     [type |-> "video/mp4", size |-> 2048, corrupt |-> FALSE]}

MakeFile(i, kind) ==
    [name |-> FileNames[i], type |-> kind.type, size |-> kind.size, corrupt |-> kind.corrupt]

\* the lists of up to MaxFiles files with distinct names
FileLists ==
    UNION {{[i \in 1..n |-> MakeFile(i, kinds[i])] : kinds \in [1..n -> FileKinds]} :
              n \in 0..MaxFiles}

NoOutcome == [results |-> <<>>, errors |-> <<>>, total |-> -1, success |-> -1, failed |-> -1]

InitBatch ==
    /\ bPc = "idle"
    /\ bOp = "none"
    /\ bFiles = <<>>
    /\ bTarget = "none"
    /\ bOperation = "none"
    /\ bI = 1
    /\ bItem = NoFile
    /\ bResults = <<>>
    /\ bErrors = <<>>
    /\ bOutcome = NoOutcome
    /\ bThrew = {}

\* the call of a batch method: const results = []; const errors = []; i = 0
StartBatch(op, files, target, operation) ==
    /\ bPc' = "loop"
    /\ bOp' = op
    /\ bFiles' = files
    /\ bTarget' = target
    /\ bOperation' = operation
    /\ bI' = 1
    /\ bItem' = NoFile
    /\ bResults' = <<>>
    /\ bErrors' = <<>>
    /\ bOutcome' = NoOutcome
    /\ bThrew' = {}

\* a batch method is called directly
BatchCall ==
    /\ bPc = "idle"
    /\ \E op \in BatchOps, files \in FileLists :
         \E target \in (IF op = "convertImages" THEN TargetFormats ELSE {"none"}),
            operation \in (IF op = "processGIFs" THEN GifOperations \cup {"flip"} ELSE {"none"}) :
              StartBatch(op, files, target, operation)
    /\ UNCHANGED <<resizeVars, compressVars, runtimeVars, pageVars, entryVars, toolVars>>

\* what the single-file method of the batch checks before it decodes
ItemCheck(op, file, operation) ==
    CASE op = "convertImages" -> convertImageCheck(file)
      [] op = "compressImages" -> compressImageCheck(file)
      [] op = "addWatermarks" -> addWatermarkCheck(file)
      [] op = "processGIFs" -> processGIFCheck(file, operation)
      [] op = "processVideos" -> processVideoCheck(file)
      [] op = "readMultipleEXIF" -> readEXIFCheck(file)

\* the element the single-file method loads the file into reports an error
ItemDecodeFails(op, file) ==
    \/ file.corrupt
    \/ op = "processVideos" /\ file.type \notin VideoTypes
    \/ op # "processVideos" /\ file.type \notin ImageTypes

\* the result the single-file method resolves with
ItemResult(op, file, target) ==
    [file |-> file.name,
     type |-> CASE op = "convertImages" -> target
                [] op = "processGIFs" -> "image/gif"
                [] op = "processVideos" -> "image/png"
                [] OTHER -> file.type,
     blobType |-> CASE op = "convertImages" ->
                          (IF checkFormatSupport(target) THEN target ELSE "image/png")
                    [] op = "processGIFs" -> "image/png"
                    [] op = "processVideos" -> "image/png"
                    [] OTHER -> (IF checkFormatSupport(file.type) THEN file.type ELSE "image/png")]

\* the catch block putting its entry in front of the earlier ones
PushErrorInFront(errors, files, i, message) ==
    <<[file |-> files[i].name, error |-> message]>> \o errors

\* catch (error) { errors.push({ file: files[i].name, error: error.message }) }
PushError(errors, files, i, message) ==
    Append(errors, [file |-> files[i].name, error |-> message])

\* for (...; i < files.length; ...) try { await single(files[i], ...): the
\* single-file method runs up to its first await.  When its check throws
\* the catch block runs before any other task.
BatchItemCall ==
    /\ bPc = "loop"
    /\ bI <= Len(bFiles)
    /\ LET why == ItemCheck(bOp, bFiles[bI], bOperation)
       IN  IF why # "none"
           THEN /\ bErrors' = PushError(bErrors, bFiles, bI, why)
                /\ bThrew' = bThrew \cup {bI}
                /\ bI' = bI + 1
                /\ UNCHANGED <<bPc, bItem>>
           ELSE /\ bPc' = "await"
                /\ bItem' = bFiles[bI]
                /\ UNCHANGED <<bErrors, bThrew, bI>>
    /\ UNCHANGED <<bOp, bFiles, bTarget, bOperation, bResults, bOutcome>>
    /\ UNCHANGED <<resizeVars, compressVars, runtimeVars, pageVars, entryVars, toolVars>>

\* the awaited single-file call settles.  On success: results.push(result);
\* this.updateProgress(i + 1, files.length), both inside the try block.  The
\* catch block reads files[i].name: when files no longer has an index i that
\* is a TypeError thrown outside every try, and the batch call rejects.
BatchItemSettles ==
    /\ bPc = "await"
    /\ LET caught(message) ==
               IF bI <= Len(bFiles)
               THEN /\ bErrors' = PushError(bErrors, bFiles, bI, message)
                    /\ bI' = bI + 1
                    /\ bPc' = "loop"
               ELSE /\ bPc' = "rejected"
                    /\ UNCHANGED <<bErrors, bI>>
       IN  IF ItemDecodeFails(bOp, bItem)
           THEN /\ caught("decode")
                /\ bThrew' = bThrew \cup {bI}
                /\ UNCHANGED <<bResults, progressShown>>
           ELSE /\ bResults' = Append(bResults, ItemResult(bOp, bItem, bTarget))
                /\ IF updateProgressThrows
                   THEN /\ caught("progress")
                        /\ UNCHANGED progressShown
                   ELSE /\ progressShown' = updateProgress(bI, Len(bFiles))
                        /\ bI' = bI + 1
                        /\ bPc' = "loop"
                        /\ UNCHANGED bErrors
                /\ UNCHANGED bThrew
    /\ UNCHANGED <<bOp, bFiles, bTarget, bOperation, bItem, bOutcome>>
    /\ UNCHANGED <<resizeVars, compressVars, runtimeFormats, progressElement, pageVars, entryVars, toolVars>>

\* return { results, errors, total: files.length, success: results.length,
\*          failed: errors.length }
BatchReturn ==
    /\ bPc = "loop"
    /\ bI > Len(bFiles)
    /\ bOutcome' = [results |-> bResults, errors |-> bErrors, total |-> Len(bFiles),
                    success |-> Len(bResults), failed |-> Len(bErrors)]
    /\ bPc' = "done"
    /\ UNCHANGED <<bOp, bFiles, bTarget, bOperation, bI, bItem, bResults, bErrors, bThrew>>
    /\ UNCHANGED <<resizeVars, compressVars, runtimeVars, pageVars, entryVars, toolVars>>

(***************************************************************************)
(* The page: ImageProcessorApp.handleFileSelection and processConvert      *)
(***************************************************************************)
InitPage ==
    /\ appSelectedFiles = <<>>
    /\ winSelectedFiles = <<>>
    /\ btnDisabled = TRUE
    /\ notifications = <<>>
    /\ uPc = "idle"
    /\ uFiles = <<>>
    /\ uLive = FALSE
    /\ uTarget = "none"
    /\ uSelections = 0

\* this.isProcessing: set to false by the constructor; processConvert does not
\* call setProcessingState.
isProcessing == FALSE

Note(type, about) == [type |-> type, about |-> about]

\* the filter of handleFileSelection looking at the type only
IsSupportedType(file) == file.type \in supportedFormats

IsValid(file) == validateFile(file) = "none"
IsInvalid(file) == validateFile(file) # "none"

\* the error notification of each file the filter drops, in order
RECURSIVE RejectNotes(_)
RejectNotes(files) ==
    IF files = <<>> THEN <<>>
    ELSE (IF IsInvalid(Head(files)) THEN <<Note("error", Head(files).name)>> ELSE <<>>)
         \o RejectNotes(Tail(files))

\* updateUI(): btn.disabled = !hasFiles || this.isProcessing
updateUI(selected) == ~(Len(selected) > 0) \/ isProcessing

\* A task of the page is running: the batch loop between two awaits, or the
\* process function resuming from its await.  A handler of a UI event runs
\* only when none is.
TaskRunning ==
    \/ bPc = "loop"
    \/ uPc = "await" /\ bPc \in {"done", "rejected"}

\* handleFileSelection(files), from the file input or a drop
HandleFileSelection ==
    /\ ~TaskRunning
    /\ uSelections < MaxSelect
    /\ uSelections' = uSelections + 1
    /\ \E files \in FileLists :
         LET validFiles == SelectSeq(files, IsValid)
         IN  IF Len(files) = 0
             THEN UNCHANGED <<appSelectedFiles, winSelectedFiles, btnDisabled, notifications,
                              uLive>>
             ELSE IF Len(validFiles) = 0
             THEN /\ notifications' = notifications \o RejectNotes(files)
                                        \o <<Note("warning", "")>>
                  /\ UNCHANGED <<appSelectedFiles, winSelectedFiles, btnDisabled, uLive>>
             ELSE /\ appSelectedFiles' = validFiles
                  /\ winSelectedFiles' = validFiles
                  /\ uLive' = FALSE
                  /\ btnDisabled' = updateUI(validFiles)
                  /\ notifications' = notifications \o RejectNotes(files)
                                        \o <<Note("success", "")>>
    /\ UNCHANGED <<uPc, uFiles, uTarget>>
    /\ UNCHANGED <<resizeVars, compressVars, runtimeVars, batchVars, entryVars, toolVars>>

\* processConvert() up to its await (one call per behaviour): the early
\* return without files, showLoading, the format check whose throw is caught
\* by processConvert's own catch, and the call of convertImages.
ProcessConvert ==
    /\ uPc = "idle"
    /\ bPc = "idle"
    /\ uFiles' = winSelectedFiles
    /\ IF Len(winSelectedFiles) = 0
       THEN /\ notifications' = Append(notifications, Note("warning", ""))
            /\ uPc' = "done"
            /\ UNCHANGED <<uTarget, btnDisabled, uLive, batchVars>>
       ELSE \E targetFormat \in TargetFormats :
              /\ uTarget' = targetFormat
              /\ IF ~checkFormatSupport(targetFormat)
                 THEN /\ notifications' = Append(notifications, Note("error", ""))
                      /\ btnDisabled' = FALSE
                      /\ uPc' = "done"
                      /\ UNCHANGED <<uLive, batchVars>>
                 ELSE /\ StartBatch("convertImages", winSelectedFiles, targetFormat, "none")
                      /\ btnDisabled' = TRUE
                      /\ uPc' = "await"
                      /\ uLive' = TRUE
                      /\ UNCHANGED notifications
    /\ UNCHANGED <<appSelectedFiles, winSelectedFiles, uSelections>>
    /\ UNCHANGED <<resizeVars, compressVars, runtimeVars, entryVars, toolVars>>

\* processConvert() after await convertImages(...): the notifications, then
\* finally { stopLoading() }
ProcessConvertResumes ==
    /\ uPc = "await"
    /\ bOp = "convertImages"
    /\ bPc = "done"
    /\ notifications' = notifications
            \o (IF bOutcome.success > 0 THEN <<Note("success", "")>> ELSE <<>>)
            \o (IF bOutcome.failed > 0 THEN <<Note("warning", "")>> ELSE <<>>)
    /\ btnDisabled' = FALSE
    /\ uPc' = "done"
    /\ UNCHANGED <<appSelectedFiles, winSelectedFiles, uFiles, uLive, uTarget, uSelections>>
    /\ UNCHANGED <<resizeVars, compressVars, runtimeVars, batchVars, entryVars, toolVars>>

\* list.splice(index, 1), index counted from 0
Splice(list, index) == SubSeq(list, 1, index) \o SubSeq(list, index + 2, Len(list))

\* removeFile(index), from the remove button displayFileList made for the
\* index-th file.  splice works on the array in place: a batch that was given
\* this array as its files sees it shrink.
RemoveFile ==
    /\ ~TaskRunning
    /\ \E index \in 0..(Len(appSelectedFiles) - 1) :
         LET rest == Splice(appSelectedFiles, index)
         IN  /\ appSelectedFiles' = rest
             /\ winSelectedFiles' = rest
             /\ btnDisabled' = updateUI(rest)
             /\ notifications' = IF Len(rest) = 0
                                 THEN Append(notifications, Note("info", ""))
                                 ELSE notifications
             /\ bFiles' = IF uLive THEN rest ELSE bFiles
    /\ UNCHANGED <<uPc, uFiles, uLive, uTarget, uSelections>>
    /\ UNCHANGED <<bPc, bOp, bTarget, bOperation, bI, bItem, bResults, bErrors, bOutcome, bThrew>>
    /\ UNCHANGED <<resizeVars, compressVars, runtimeVars, entryVars, toolVars>>

\* clearAllFiles(), from the Delete key: two new empty arrays
ClearAllFiles ==
    /\ ~TaskRunning
    /\ Len(winSelectedFiles) > 0
    /\ appSelectedFiles' = <<>>
    /\ winSelectedFiles' = <<>>
    /\ btnDisabled' = updateUI(<<>>)
    /\ uLive' = FALSE
    /\ UNCHANGED <<notifications, uPc, uFiles, uTarget, uSelections>>
    /\ UNCHANGED <<resizeVars, compressVars, runtimeVars, batchVars, entryVars, toolVars>>

\* switchTab(tabName): ... this.updateUI()
SwitchTab ==
    /\ ~TaskRunning
    /\ btnDisabled' = updateUI(appSelectedFiles)
    /\ UNCHANGED <<appSelectedFiles, winSelectedFiles, notifications, uPc, uFiles, uLive,
                   uTarget, uSelections>>
    /\ UNCHANGED <<resizeVars, compressVars, runtimeVars, batchVars, entryVars, toolVars>>

\* the debounced handler of the window's resize event: this.updateUI()
WindowResize ==
    /\ ~TaskRunning
    /\ btnDisabled' = updateUI(appSelectedFiles)
    /\ UNCHANGED <<appSelectedFiles, winSelectedFiles, notifications, uPc, uFiles, uLive,
                   uTarget, uSelections>>
    /\ UNCHANGED <<resizeVars, compressVars, runtimeVars, batchVars, entryVars, toolVars>>

\* processCompress() up to its await: the early return without files,
\* showLoading and the call of compressImages.
ProcessCompress ==
    /\ uPc = "idle"
    /\ bPc = "idle"
    /\ uFiles' = winSelectedFiles
    /\ IF Len(winSelectedFiles) = 0
       THEN /\ notifications' = Append(notifications, Note("warning", ""))
            /\ uPc' = "done"
            /\ UNCHANGED <<btnDisabled, uLive, batchVars>>
       ELSE /\ StartBatch("compressImages", winSelectedFiles, "none", "none")
            /\ btnDisabled' = TRUE
            /\ uPc' = "await"
            /\ uLive' = TRUE
            /\ UNCHANGED notifications
    /\ UNCHANGED <<appSelectedFiles, winSelectedFiles, uTarget, uSelections>>
    /\ UNCHANGED <<resizeVars, compressVars, runtimeVars, entryVars, toolVars>>

\* the watermark panel: the type and whether its text / image is filled in
WatermarkPanels == [type : {"text", "image"}, text : BOOLEAN, image : BOOLEAN]

\* processWatermark() up to its await: the early returns without files,
\* without text and without image, showLoading and the call of addWatermarks.
ProcessWatermark ==
    /\ uPc = "idle"
    /\ bPc = "idle"
    /\ uFiles' = winSelectedFiles
    /\ \E panel \in WatermarkPanels :
         IF \/ Len(winSelectedFiles) = 0
            \/ panel.type = "text" /\ ~panel.text
            \/ panel.type = "image" /\ ~panel.image
         THEN /\ notifications' = Append(notifications, Note("warning", ""))
              /\ uPc' = "done"
              /\ UNCHANGED <<btnDisabled, uLive, batchVars>>
         ELSE /\ StartBatch("addWatermarks", winSelectedFiles, "none", "none")
              /\ btnDisabled' = TRUE
              /\ uPc' = "await"
              /\ uLive' = TRUE
              /\ UNCHANGED notifications
    /\ UNCHANGED <<appSelectedFiles, winSelectedFiles, uTarget, uSelections>>
    /\ UNCHANGED <<resizeVars, compressVars, runtimeVars, entryVars, toolVars>>

\* a process function after its await of the batch: the notifications, then
\* finally { stopLoading() }
ProcessResumes(op) ==
    /\ uPc = "await"
    /\ bOp = op
    /\ bPc = "done"
    /\ notifications' = notifications
            \o (IF bOutcome.success > 0 THEN <<Note("success", "")>> ELSE <<>>)
            \o (IF bOutcome.failed > 0 THEN <<Note("warning", "")>> ELSE <<>>)
    /\ btnDisabled' = FALSE
    /\ uPc' = "done"
    /\ UNCHANGED <<appSelectedFiles, winSelectedFiles, uFiles, uLive, uTarget, uSelections>>
    /\ UNCHANGED <<resizeVars, compressVars, runtimeVars, batchVars, entryVars, toolVars>>

ProcessCompressResumes == ProcessResumes("compressImages")

ProcessWatermarkResumes == ProcessResumes("addWatermarks")

\* the batch a process function awaits rejected: catch (error) {
\* showNotification(error.message, 'error') } finally { stopLoading() }
ProcessCatches(op) ==
    /\ uPc = "await"
    /\ bOp = op
    /\ bPc = "rejected"
    /\ notifications' = Append(notifications, Note("error", ""))
    /\ btnDisabled' = FALSE
    /\ uPc' = "threw"
    /\ UNCHANGED <<appSelectedFiles, winSelectedFiles, uFiles, uLive, uTarget, uSelections>>
    /\ UNCHANGED <<resizeVars, compressVars, runtimeVars, batchVars, entryVars, toolVars>>

ProcessConvertCatches == ProcessCatches("convertImages")

ProcessCompressCatches == ProcessCatches("compressImages")

ProcessWatermarkCatches == ProcessCatches("addWatermarks")

(***************************************************************************)
(* The single-file entry points, up to the decode of the file              *)
(***************************************************************************)
EntryFiles ==
    [name : {"a.jpg"}, type : {"image/jpeg", "image/gif", "image/bmp", "video/mp4"},
     size : {2048, maxFileSize, maxFileSize + 1}, corrupt : BOOLEAN]

InitEntry ==
    /\ ePc = "idle"
    /\ eEntry = "none"
    /\ eFile = [name |-> "", type |-> "", size |-> 0, corrupt |-> FALSE]
    /\ eOperation = "none"
    /\ eDecodeStarted = FALSE

\* the entry point runs up to its first await: it throws when its check
\* fails, otherwise it creates the image element for the file
Enter(entry, file, operation, why) ==
    /\ ePc = "idle"
    /\ eEntry' = entry
    /\ eFile' = file
    /\ eOperation' = operation
    /\ IF why # "none"
       THEN ePc' = "threw" /\ eDecodeStarted' = FALSE
       ELSE ePc' = "decode" /\ eDecodeStarted' = TRUE
    /\ UNCHANGED <<resizeVars, compressVars, runtimeVars, batchVars, pageVars, toolVars>>

EnterConvertImage ==
    \E file \in EntryFiles : Enter("convertImage", file, "none", convertImageCheck(file))

EnterCompressImage ==
    \E file \in EntryFiles : Enter("compressImage", file, "none", compressImageCheck(file))

EnterInitCrop ==
    \E file \in EntryFiles : Enter("initCrop", file, "none", initCropCheck(file))

EnterAddWatermark ==
    \E file \in EntryFiles : Enter("addWatermark", file, "none", addWatermarkCheck(file))

EnterCreateRepeatingWatermark ==
    \E file \in EntryFiles :
        Enter("createRepeatingWatermark", file, "none", createRepeatingWatermarkCheck(file))

EnterProcessGIF ==
    \E file \in EntryFiles, operation \in GifOperations \cup {"flip"} :
        Enter("processGIF", file, operation, processGIFCheck(file, operation))

\* the image element loads or reports an error; the rest of the entry point
\* (draw, encode, result) is summed up in the outcome
EntryDecodeSettles ==
    /\ ePc = "decode"
    /\ ePc' = IF eFile.corrupt \/ eFile.type \notin ImageTypes THEN "threw" ELSE "done"
    /\ UNCHANGED <<eEntry, eFile, eOperation, eDecodeStarted>>
    /\ UNCHANGED <<resizeVars, compressVars, runtimeVars, batchVars, pageVars, toolVars>>

(***************************************************************************)
(* ImageCropper.  The cropBox coordinates are exact rationals kept as      *)
(* integers in 1/CropUnit pixels, so that canvas * 0.1, canvas * 0.8 and   *)
(* width / (4/3), width / (16/9), width / (3/2) are whole numbers.         *)
(***************************************************************************)
CropUnit == 16 * 15

cropMaxWidth == 600                 \* const maxWidth = 600
cropMaxHeight == 400                \* const maxHeight = 400

NoImage == [width |-> 0, height |-> 0]
NoCropBox == [x |-> 0, y |-> 0, width |-> 0, height |-> 0]
NoCrop == [cropX |-> 0, cropY |-> 0, cropWidth |-> 0, cropHeight |-> 0]
NoMove == [deltaX |-> 0, deltaY |-> 0, from |-> NoCropBox]
NoFound == [box |-> NoCropBox, image |-> NoImage]

\* the natural sizes of the images given to initCrop: small ones that are
\* shown unscaled and large ones that are scaled into 600 x 400
CropImageSizes ==
    {[width |-> 10, height |-> 10], [width |-> 15, height |-> 10],
     [width |-> 1000, height |-> 1000], [width |-> 1200, height |-> 800],
     [width |-> 6000, height |-> 1000]}

CropFiles ==
    {[name |-> "a.png", type |-> t, size |-> 2048, width |-> d.width, height |-> d.height,
      corrupt |-> c] : t \in {"image/png", "image/bmp"}, d \in CropImageSizes, c \in BOOLEAN}

\* the keys of the #cropRatio select and the table const ratios = {...}
RatioKeys == {"free", "1:1", "4:3", "16:9", "3:2"}

ratios(key) ==
    CASE key = "1:1" -> Rat(1, 1)
      [] key = "4:3" -> Rat(4, 3)
      [] key = "16:9" -> Rat(16, 9)
      [] key = "3:2" -> Rat(3, 2)

cropInputs == {"cropX", "cropY", "cropWidth", "cropHeight"}

\* the state the constructor leaves
InitCropper ==
    /\ kPc = "idle"
    /\ kImage = NoImage
    /\ cropCanvas = NoCanvas
    /\ cropBox = NoCropBox
    /\ aspectRatio = "null"
    /\ kCrop = NoCrop
    /\ kLast = "none"
    /\ kEdited = FALSE
    /\ kMove = NoMove
    /\ kFound = NoFound
    /\ kSteps = 0

\* initCropBox(): the default box is the middle 80% of the canvas
initCropBox(canvas) ==
    [x |-> (canvas.width * CropUnit) \div 10,
     y |-> (canvas.height * CropUnit) \div 10,
     width |-> (canvas.width * CropUnit * 8) \div 10,
     height |-> (canvas.height * CropUnit * 8) \div 10]

\* initCrop(file): validate, decode, size the display canvas, initCropBox
InitCrop ==
    /\ kPc = "idle"
    /\ \E file \in CropFiles :
         IF initCropCheck(file) # "none" \/ file.corrupt
         THEN /\ kPc' = "threw"
              /\ UNCHANGED <<kImage, cropCanvas, cropBox>>
         ELSE /\ kPc' = "ready"
              /\ kImage' = [width |-> file.width, height |-> file.height]
              /\ \E dims \in calculateResizedDimensions(file.width, file.height, cropMaxWidth,
                                                        cropMaxHeight, TRUE) :
                   /\ cropCanvas' = dims
                   /\ cropBox' = initCropBox(dims)
    /\ kLast' = "initCrop"
    /\ UNCHANGED <<aspectRatio, kCrop, kEdited, kSteps>>
    /\ UNCHANGED <<kMove, kFound, cropRest>>

\* the boundary check of one axis that forgets the far edge
fitsFromNearEdge(newCoordinate, size, canvasSide) == newCoordinate >= 0

\* the boundary check of one axis: newX >= 0 && newX + this.cropBox.width <=
\* this.cropCanvas.width
fits(newCoordinate, size, canvasSide) ==
    newCoordinate >= 0 /\ newCoordinate + size <= canvasSide * CropUnit

\* moveCropBox(deltaX, deltaY), called by onMouseMove / onTouchMove
MoveCropBox ==
    /\ kPc = "ready"
    /\ kSteps < MaxGestures
    /\ \E deltaX \in -MaxDelta..MaxDelta, deltaY \in -MaxDelta..MaxDelta :
         LET newX == cropBox.x + deltaX * CropUnit
             newY == cropBox.y + deltaY * CropUnit
         IN  /\ cropBox' = [cropBox EXCEPT
                   !.x = IF fits(newX, cropBox.width, cropCanvas.width) THEN newX ELSE @,
                   !.y = IF fits(newY, cropBox.height, cropCanvas.height) THEN newY ELSE @]
             /\ kMove' = [deltaX |-> deltaX, deltaY |-> deltaY, from |-> cropBox]
    /\ kLast' = "moveCropBox"
    /\ kSteps' = kSteps + 1
    /\ UNCHANGED <<kPc, kImage, cropCanvas, aspectRatio, kCrop, kEdited>>
    /\ UNCHANGED <<kFound, cropRest>>

\* setAspectRatio(ratio), called by the change handler of #cropRatio
SetAspectRatio ==
    /\ kPc = "ready"
    /\ kSteps < MaxGestures
    /\ \E ratio \in RatioKeys :
         IF ratio = "free"
         THEN /\ aspectRatio' = "null"
              /\ UNCHANGED cropBox
         ELSE /\ aspectRatio' = ratio
              /\ cropBox' = [cropBox EXCEPT
                               !.height = (cropBox.width * ratios(ratio).d) \div ratios(ratio).n]
    /\ kLast' = "setAspectRatio"
    /\ kSteps' = kSteps + 1
    /\ UNCHANGED <<kPc, kImage, cropCanvas, kCrop, kEdited>>
    /\ UNCHANGED <<kMove, kFound, cropRest>>

\* resetCrop()
ResetCrop ==
    /\ kPc = "ready"
    /\ kSteps < MaxGestures
    /\ cropBox' = initCropBox(cropCanvas)
    /\ kLast' = "resetCrop"
    /\ kSteps' = kSteps + 1
    /\ UNCHANGED <<kPc, kImage, cropCanvas, aspectRatio, kCrop, kEdited>>
    /\ UNCHANGED <<kMove, kFound, cropRest>>

\* selectAll()
SelectAll ==
    /\ kPc = "ready"
    /\ kSteps < MaxGestures
    /\ cropBox' = [x |-> 0, y |-> 0, width |-> cropCanvas.width * CropUnit,
                   height |-> cropCanvas.height * CropUnit]
    /\ kLast' = "selectAll"
    /\ kSteps' = kSteps + 1
    /\ UNCHANGED <<kPc, kImage, cropCanvas, aspectRatio, kCrop, kEdited>>
    /\ UNCHANGED <<kMove, kFound, cropRest>>

\* the integers typed into a control-panel input: parseInt(this.value) || 0
CropInputValues ==
    {-1, 0, 1, cropCanvas.width - 1, cropCanvas.width, cropCanvas.height - 1, cropCanvas.height}

\* the change handler of #cropX, #cropY, #cropWidth, #cropHeight
CropInputChange ==
    /\ kSteps < MaxGestures
    /\ \E id \in cropInputs, value \in CropInputValues :
         /\ cropBox' = CASE id = "cropX" -> [cropBox EXCEPT !.x = value * CropUnit]
                         [] id = "cropY" -> [cropBox EXCEPT !.y = value * CropUnit]
                         [] id = "cropWidth" -> [cropBox EXCEPT !.width = value * CropUnit]
                         [] id = "cropHeight" -> [cropBox EXCEPT !.height = value * CropUnit]
         /\ kLast' = id
    /\ kEdited' = TRUE
    /\ kSteps' = kSteps + 1
    /\ UNCHANGED <<kPc, kImage, cropCanvas, aspectRatio, kCrop>>
    /\ UNCHANGED <<kMove, kFound, cropRest>>

\* Math.round(coordinate * scale), scale = natural / canvas: the doubles can
\* round an exact tie either way when the coordinate or the scale is inexact
CropRound(coordinate, natural, canvas) ==
    RoundComputed(Rat(coordinate * natural, CropUnit * canvas),
                  IsPow2(CropUnit \div GCD(coordinate, CropUnit)) /\ RatioExact(natural, canvas))

\* applyCrop(): the source rectangle that is drawn on the new canvas
ApplyCrop ==
    /\ kPc = "ready"
    /\ kSteps < MaxGestures
    /\ \E cropX \in CropRound(cropBox.x, kImage.width, cropCanvas.width),
          cropY \in CropRound(cropBox.y, kImage.height, cropCanvas.height),
          cropWidth \in CropRound(cropBox.width, kImage.width, cropCanvas.width),
          cropHeight \in CropRound(cropBox.height, kImage.height, cropCanvas.height) :
         kCrop' = [cropX |-> cropX, cropY |-> cropY, cropWidth |-> cropWidth,
                   cropHeight |-> cropHeight]
    /\ kLast' = "applyCrop"
    /\ kSteps' = kSteps + 1
    /\ UNCHANGED <<kPc, kImage, cropCanvas, cropBox, aspectRatio, kEdited>>
    /\ UNCHANGED <<kMove, kFound, cropRest>>

\* processCrop(), for the first selected file: await imageCropper.initCrop(file),
\* then await imageCropper.applyCrop().  initCrop throws before it has changed
\* the cropper when the file fails its check or does not decode.
ProcessCrop ==
    /\ kSteps < MaxGestures
    /\ kFound' = [box |-> cropBox, image |-> kImage]
    /\ \E file \in CropFiles :
         IF initCropCheck(file) # "none" \/ file.corrupt
         THEN /\ kPc' = IF kPc = "idle" THEN "threw" ELSE kPc
              /\ kLast' = "processCropThrew"
              /\ UNCHANGED <<kImage, cropCanvas, cropBox, kCrop>>
         ELSE /\ kPc' = "ready"
              /\ kLast' = "processCrop"
              /\ kImage' = [width |-> file.width, height |-> file.height]
              /\ \E dims \in calculateResizedDimensions(file.width, file.height, cropMaxWidth,
                                                        cropMaxHeight, TRUE) :
                   LET box == initCropBox(dims)
                   IN  /\ cropCanvas' = dims
                       /\ cropBox' = box
                       /\ \E cropX \in CropRound(box.x, file.width, dims.width),
                             cropY \in CropRound(box.y, file.height, dims.height),
                             cropWidth \in CropRound(box.width, file.width, dims.width),
                             cropHeight \in CropRound(box.height, file.height, dims.height) :
                            kCrop' = [cropX |-> cropX, cropY |-> cropY,
                                      cropWidth |-> cropWidth, cropHeight |-> cropHeight]
    /\ kSteps' = kSteps + 1
    /\ UNCHANGED <<aspectRatio, kEdited, kMove>>
    /\ UNCHANGED cropRest

(***************************************************************************)
(* WatermarkProcessor: where a watermark is drawn.  Lengths are rationals. *)
(***************************************************************************)
Positions == {"top-left", "top-right", "bottom-left", "bottom-right", "center"}

\* calculatePosition(canvasWidth, canvasHeight, watermarkWidth, watermarkHeight, position, padding)
calculatePosition(canvasWidth, canvasHeight, watermarkWidth, watermarkHeight, position, padding) ==
    LET right == RatSub(RatSub(canvasWidth, watermarkWidth), padding)
        below == RatSub(canvasHeight, padding)
    IN  CASE position = "top-left" ->
               [x |-> padding, y |-> RatAdd(padding, watermarkHeight)]
          [] position = "top-right" ->
               [x |-> right, y |-> RatAdd(padding, watermarkHeight)]
          [] position = "bottom-left" ->
               [x |-> padding, y |-> below]
          [] position = "bottom-right" ->
               [x |-> right, y |-> below]
          [] position = "center" ->
               [x |-> LET sum == RatSub(canvasWidth, watermarkWidth)
                      IN  RatNorm(Rat(sum.n, 2 * sum.d)),
                y |-> LET sum == RatAdd(canvasHeight, watermarkHeight)
                      IN  RatNorm(Rat(sum.n, 2 * sum.d))]
          [] OTHER ->
               [x |-> right, y |-> below]

\* the size addImageWatermark draws the watermark image at: at most a quarter
\* of the shorter canvas side along the longer side of the watermark
watermarkSize(canvasWidth, canvasHeight, naturalWidth, naturalHeight) ==
    LET maxWatermarkSize == RatNorm(Rat(Min(canvasWidth, canvasHeight), 4))
    IN  IF naturalWidth > naturalHeight
        THEN LET watermarkWidth == RatMin(maxWatermarkSize, Rat(naturalWidth, 1))
             IN  [width |-> watermarkWidth,
                  height |-> RatNorm(Rat(watermarkWidth.n * naturalHeight,
                                         watermarkWidth.d * naturalWidth))]
        ELSE LET watermarkHeight == RatMin(maxWatermarkSize, Rat(naturalHeight, 1))
             IN  [width |-> RatNorm(Rat(watermarkHeight.n * naturalWidth,
                                        watermarkHeight.d * naturalHeight)),
                  height |-> watermarkHeight]

\* ctx.translate(x, y); ctx.rotate(rotation); ctx.fillText(text, 0, 0): the
\* text is laid out from the origin to the right and up from its baseline
textBox(origin, width, height, rotation) ==
    IF rotation = 0
    THEN [left |-> origin.x, right |-> RatAdd(origin.x, width),
          top |-> RatSub(origin.y, height), bottom |-> origin.y]
    ELSE [left |-> RatSub(origin.x, width), right |-> origin.x,
          top |-> origin.y, bottom |-> RatAdd(origin.y, height)]

\* ctx.translate(x, y); ctx.rotate(rotation); ctx.drawImage(img, 0, 0, w, h):
\* the image is laid out from the origin to the right and down
imageBox(origin, width, height, rotation) ==
    IF rotation = 0
    THEN [left |-> origin.x, right |-> RatAdd(origin.x, width),
          top |-> origin.y, bottom |-> RatAdd(origin.y, height)]
    ELSE [left |-> RatSub(origin.x, width), right |-> origin.x,
          top |-> RatSub(origin.y, height), bottom |-> origin.y]

MarkCanvases ==
    {[width |-> 8, height |-> 8], [width |-> 40, height |-> 20], [width |-> 400, height |-> 400]}

\* natural sizes of watermark images
MarkImages ==
    {[width |-> 1, height |-> 1], [width |-> 3, height |-> 2], [width |-> 2, height |-> 3],
     [width |-> 100, height |-> 100]}

Rotations == {0, 180}               \* degrees; the default is -45

NoMark == [kind |-> "none", canvas |-> NoCanvas, width |-> Rat(0, 1), height |-> Rat(0, 1),
           position |-> "none", padding |-> 0, rotation |-> 0]
NoOrigin == [x |-> Rat(0, 1), y |-> Rat(0, 1)]
NoBox == [left |-> Rat(0, 1), right |-> Rat(0, 1), top |-> Rat(0, 1), bottom |-> Rat(0, 1)]

InitMark ==
    /\ mPc = "idle"
    /\ mIn = NoMark
    /\ mOrigin = NoOrigin
    /\ mBox = NoBox

\* addTextWatermark(ctx, canvasWidth, canvasHeight, options): textWidth is what
\* measureText reports, textHeight is the font size
AddTextWatermark ==
    /\ mPc = "idle"
    /\ \E canvas \in MarkCanvases, position \in Positions \cup {"middle"},
          padding \in 0..MaxPadding, rotation \in Rotations :
         \E textWidth \in {1, canvas.width \div 2, canvas.width, 2 * canvas.width},
            fontSize \in {1, canvas.height \div 2, canvas.height} :
           LET positionCoords ==
                 calculatePosition(Rat(canvas.width, 1), Rat(canvas.height, 1),
                                   Rat(textWidth, 1), Rat(fontSize, 1), position,
                                   Rat(padding, 1))
           IN  /\ mIn' = [kind |-> "text", canvas |-> canvas, width |-> Rat(textWidth, 1),
                          height |-> Rat(fontSize, 1), position |-> position,
                          padding |-> padding, rotation |-> rotation]
               /\ mOrigin' = positionCoords
               /\ mBox' = textBox(positionCoords, Rat(textWidth, 1), Rat(fontSize, 1), rotation)
    /\ mPc' = "done"
    /\ UNCHANGED markRest

\* addImageWatermark(ctx, canvasWidth, canvasHeight, options)
AddImageWatermark ==
    /\ mPc = "idle"
    /\ \E canvas \in MarkCanvases, position \in Positions \cup {"middle"},
          padding \in 0..MaxPadding, rotation \in Rotations, watermarkImg \in MarkImages :
         LET size == watermarkSize(canvas.width, canvas.height, watermarkImg.width,
                                   watermarkImg.height)
             positionCoords ==
                 calculatePosition(Rat(canvas.width, 1), Rat(canvas.height, 1),
                                   size.width, size.height, position, Rat(padding, 1))
         IN  /\ mIn' = [kind |-> "image", canvas |-> canvas, width |-> size.width,
                        height |-> size.height, position |-> position,
                        padding |-> padding, rotation |-> rotation]
             /\ mOrigin' = positionCoords
             /\ mBox' = imageBox(positionCoords, size.width, size.height, rotation)
    /\ mPc' = "done"
    /\ UNCHANGED markRest

(***************************************************************************)
(* GIFProcessor.extractFrames and getGIFInfo                               *)
(***************************************************************************)
\* natural sizes of the decoded GIF
GifSizes ==
    [width : 1..MaxGifSide, height : 1..MaxGifSide] \cup {[width |-> 100, height |-> 300]}

GifFiles == [size : GifSizes, corrupt : BOOLEAN]

\* Math.floor(img.naturalHeight / img.naturalWidth)
frameCountRoundedDown(naturalWidth, naturalHeight) == naturalHeight \div naturalWidth

\* Math.ceil(img.naturalHeight / img.naturalWidth)
frameCount(naturalWidth, naturalHeight) == (naturalHeight + naturalWidth - 1) \div naturalWidth

InitGif ==
    /\ gPc = "idle"
    /\ gImage = NoImage
    /\ gFrameCount = 0
    /\ gPending = {}
    /\ gFrames = <<>>
    /\ gResolved = <<>>
    /\ gInfo = -1

\* extractFrames(file, options): the promise is created and the image starts
\* to load; img.onerror rejects
ExtractFrames ==
    /\ gPc = "idle"
    /\ \E file \in GifFiles :
         IF file.corrupt
         THEN gPc' = "rejected" /\ UNCHANGED gImage
         ELSE gPc' = "decode" /\ gImage' = file.size
    /\ UNCHANGED <<gFrameCount, gPending, gFrames, gResolved, gInfo>>
    /\ UNCHANGED gifRest

\* img.onload: the frame count is computed and the loop draws every frame
\* and calls canvas.toBlob for it; no callback runs before the loop ends
ExtractFramesOnLoad ==
    /\ gPc = "decode"
    /\ gFrameCount' = frameCount(gImage.width, gImage.height)
    /\ gPending' = 0..(gFrameCount' - 1)
    /\ gPc' = "encode"
    /\ UNCHANGED <<gImage, gFrames, gResolved, gInfo>>
    /\ UNCHANGED gifRest

\* a canvas.toBlob callback runs: frames.push({blob, filename, frame: i + 1});
\* if (frames.length === frameCount) resolve(frames).  The runtime may run
\* the callbacks of separate toBlob calls in any order.
ToBlobCallback ==
    /\ gPc = "encode"
    /\ \E i \in gPending :
         /\ gPending' = gPending \ {i}
         /\ gFrames' = Append(gFrames, [frame |-> i + 1])
    /\ IF Len(gFrames') = gFrameCount
       THEN gPc' = "resolved" /\ gResolved' = gFrames'
       ELSE UNCHANGED <<gPc, gResolved>>
    /\ UNCHANGED <<gImage, gFrameCount, gInfo>>
    /\ UNCHANGED gifRest

\* getGIFInfo(file) on the same file, from call to img.onload
GetGIFInfo ==
    /\ gPc \notin {"idle", "rejected"}
    /\ gInfo = -1
    /\ gInfo' = frameCount(gImage.width, gImage.height)
    /\ UNCHANGED <<gPc, gImage, gFrameCount, gPending, gFrames, gResolved>>
    /\ UNCHANGED gifRest

(***************************************************************************)
(* EXIFProcessor.processEXIFData and getGPSCoordinates.                    *)
(* A JavaScript value is a record [t, v]: t is "string", "number", "array" *)
(* or "null"; the text of a string is the tuple of its pieces.             *)
(***************************************************************************)
Str(pieces) == [t |-> "string", v |-> pieces]
Num(n) == [t |-> "number", v |-> n]
Arr(items) == [t |-> "array", v |-> items]
Null == [t |-> "null", v |-> <<>>]

\* the keys of this.supportedTags
supportedTags ==
    {"Make", "Model", "Software", "DateTime", "DateTimeOriginal", "DateTimeDigitized",
     "ExposureTime", "FNumber", "ISO", "FocalLength", "Flash", "WhiteBalance", "ExposureMode",
     "ExposureProgram", "GPSLatitude", "GPSLongitude", "GPSAltitude", "GPSLatitudeRef",
     "GPSLongitudeRef", "ImageWidth", "ImageLength", "Orientation", "XResolution",
     "YResolution", "ResolutionUnit", "Artist", "Copyright", "UserComment", "ImageDescription"}

\* the tags of the drawn raw data: known ones and two the processor has no
\* label for (LensModel, GPSSpeed)
GpsTags == {"GPSLatitude", "GPSLongitude", "GPSLatitudeRef", "GPSLongitudeRef"}
PlainTags == {"Make", "FNumber", "LensModel", "GPSSpeed"}

Categories == {"basic", "technical", "location", "image", "other"}

\* String(value)
String(value) ==
    CASE value.t = "string" -> value
      [] value.t = "number" -> Str(<<value.v>>)
      [] value.t = "array" -> Str(<<"join", value.v>>)
      [] OTHER -> Str(<<"null">>)

\* formatGPS(value)
formatGPS(value) ==
    IF value.t = "array" /\ Len(value.v) = 3
    THEN Str(<<value.v[1], "deg ", value.v[2], "' ", value.v[3], "''">>)
    ELSE String(value)

\* processTagValue(tag, value), for the tags of the drawn raw data
processTagValue(tag, value) ==
    IF value.t = "null" THEN Str(<<"unknown">>)
    ELSE CASE tag = "FNumber" -> Str(<<"f/", value.v>>)
           [] tag = "FocalLength" -> Str(<<value.v, "mm">>)
           [] tag \in {"GPSLatitude", "GPSLongitude"} -> formatGPS(value)
           [] tag \in {"XResolution", "YResolution"} -> Str(<<value.v, " DPI">>)
           [] OTHER -> String(value)

\* tag.startsWith('GPS'), on the tags of the drawn raw data
startsWithGPS(tag) == tag \in GpsTags \cup {"GPSAltitude", "GPSSpeed"}

\* getTagCategory(tag)
getTagCategory(tag) ==
    IF tag \in {"Make", "Model", "Software", "DateTime", "DateTimeOriginal", "DateTimeDigitized"}
    THEN "basic"
    ELSE IF tag \in {"ExposureTime", "FNumber", "ISO", "FocalLength", "Flash", "WhiteBalance",
                     "ExposureMode", "ExposureProgram"}
    THEN "technical"
    ELSE IF startsWithGPS(tag)
    THEN "location"
    ELSE IF tag \in {"ImageWidth", "ImageLength", "Orientation", "XResolution", "YResolution",
                     "ResolutionUnit"}
    THEN "image"
    ELSE "other"

\* processEXIFData(rawData): the five categories (the raw field is xRaw)
processEXIFData(rawData) ==
    [category \in Categories |->
        [tag \in {t \in DOMAIN rawData : t \in supportedTags /\ getTagCategory(t) = category} |->
            [label |-> tag, value |-> processTagValue(tag, rawData[tag]), raw |-> rawData[tag]]]]

\* convertDMSToDD(dms, ref): null, or the decimal degrees as a rational
convertDMSToDD(dms, ref) ==
    IF dms.t # "array" \/ Len(dms.v) # 3
    THEN Null
    ELSE LET dd == dms.v[1] * 3600 + dms.v[2] * 60 + dms.v[3]
         IN  Num(Rat(IF ref = Str(<<"S">>) \/ ref = Str(<<"W">>) THEN -dd ELSE dd, 3600))

\* hasGPSInfo(exifData)
hasGPSInfo(exifData) == DOMAIN exifData["location"] # {}

\* entry?.value, undefined standing as Null
ValueOf(location, tag) == IF tag \in DOMAIN location THEN location[tag].value ELSE Null

\* getGPSCoordinates(exifData): Null, or {latitude, longitude}
getGPSCoordinates(exifData) ==
    LET location == exifData["location"]
    IN  IF ~hasGPSInfo(exifData) THEN Null
        ELSE IF "GPSLatitude" \in DOMAIN location /\ "GPSLongitude" \in DOMAIN location
        THEN [t |-> "object",
              v |-> [latitude |-> convertDMSToDD(location["GPSLatitude"].value,
                                                 ValueOf(location, "GPSLatitudeRef")),
                     longitude |-> convertDMSToDD(location["GPSLongitude"].value,
                                                  ValueOf(location, "GPSLongitudeRef"))]]
        ELSE Null

\* the values the EXIF library hands over for the plain tags
RawValue(tag) ==
    CASE tag = "Make" -> Str(<<"Canon">>)
      [] tag = "FNumber" -> Num(4)
      [] tag = "LensModel" -> Str(<<"EF50">>)
      [] tag = "GPSSpeed" -> Num(5)

\* no GPS tags, or the four of them
RawGps ==
    {[tag \in {} |-> Null]} \cup
    {[tag \in GpsTags |->
        CASE tag = "GPSLatitude" -> Arr(lat)
          [] tag = "GPSLongitude" -> Arr(<<79, 58, 56>>)
          [] tag = "GPSLatitudeRef" -> Str(<<latRef>>)
          [] tag = "GPSLongitudeRef" -> Str(<<lngRef>>)] :
       lat \in {<<40, 26, 46>>, <<0, 30, 0>>}, latRef \in {"N", "S"}, lngRef \in {"E", "W"}}

\* raw data: any of the plain tags, with or without the four GPS tags
RawDatas ==
    {[tag \in plain |-> RawValue(tag)] @@ gps : plain \in SUBSET PlainTags, gps \in RawGps}

NoData == [category \in Categories |-> <<>>]

InitExif ==
    /\ xPc = "idle"
    /\ xRaw = <<>>
    /\ xData = NoData
    /\ xCoords = Null

\* processEXIFData(rawData), as readEXIF calls it
ProcessEXIFData ==
    /\ xPc = "idle"
    /\ \E rawData \in RawDatas :
         /\ xRaw' = rawData
         /\ xData' = processEXIFData(rawData)
    /\ xPc' = "processed"
    /\ UNCHANGED xCoords
    /\ UNCHANGED exifRest

\* getGPSCoordinates(exifData) on the processed data
GetGPSCoordinates ==
    /\ xPc = "processed"
    /\ xCoords' = getGPSCoordinates(xData)
    /\ xPc' = "located"
    /\ UNCHANGED <<xRaw, xData>>
    /\ UNCHANGED exifRest

(***************************************************************************)
(* VideoProcessor.processVideo                                             *)
(* Times are rationals in seconds.  Video element e and canvas e are the   *)
(* ones call e created; element e plays the file of call e.                *)
(***************************************************************************)
VideoCalls == 1..MaxCalls

\* options.fps in half frames per second: 0.5 and 2 frames per second
FpsHalves == {1, 4}

VideoFormats == {"gif", "webp", "avi"}

\* the file (its length in seconds, whether its bytes load) and the options;
\* the options play no part for a file whose bytes do not load
VideoInputs ==
    [length : 1..MaxLength, corrupt : {FALSE}, startTime : 0..MaxStart,
     duration : 0..MaxDuration, fpsHalves : FpsHalves, outputFormat : VideoFormats]
    \cup [length : {1}, corrupt : {TRUE}, startTime : {0}, duration : {MaxDuration},
          fpsHalves : {4}, outputFormat : {"gif"}]

\* videoWidth x videoHeight of every file, and options.maxWidth / maxHeight
videoSize == [width |-> 640, height |-> 480]
videoBox == [maxWidth |-> 480, maxHeight |-> 360]

NoVideoInput == [length |-> 0, corrupt |-> FALSE, startTime |-> 0, duration |-> 0,
                 fpsHalves |-> 0, outputFormat |-> "none"]
NoSeek == [time |-> Rat(-1, 1), by |-> 0]
NoFrame == [video |-> 0, canvas |-> 0, time |-> Rat(-1, 1), index |-> -1, by |-> 0]
NoVideoResult == [blob |-> NoFrame, type |-> "none", frameCount |-> -1]

\* a canvas as document.createElement('canvas') makes it
newCanvas == [width |-> 300, height |-> 150]

InitVideo ==
    /\ vThis = 0
    /\ vPc = [c \in VideoCalls |-> "idle"]
    /\ vIn = [c \in VideoCalls |-> NoVideoInput]
    /\ vVideo = [c \in VideoCalls |-> 0]
    /\ vFrame = [c \in VideoCalls |-> 0]
    /\ vFrames = [c \in VideoCalls |-> <<>>]
    /\ vToBlob = [c \in VideoCalls |-> <<>>]
    /\ vSeeks = [c \in VideoCalls |-> <<>>]
    /\ vResult = [c \in VideoCalls |-> NoVideoResult]
    /\ vError = [c \in VideoCalls |-> "none"]
    /\ vReady = [e \in VideoCalls |-> "none"]
    /\ vOnSeeked = [e \in VideoCalls |-> 0]
    /\ vSeeking = [e \in VideoCalls |-> NoSeek]
    /\ vTime = [e \in VideoCalls |-> Rat(0, 1)]
    /\ vCanvas = [e \in VideoCalls |-> newCanvas]

\* const totalFrames = Math.floor(duration * fps)
totalFrames(in) == (in.duration * in.fpsHalves) \div 2

\* the seek time without its currentFrame * frameInterval term
seekTimeOfFirstFrame(in, currentFrame) == Rat(in.startTime, 1)

\* const currentTime = startTime + (currentFrame * frameInterval), where
\* frameInterval = duration / totalFrames
seekTime(in, currentFrame) ==
    RatNorm(Rat(in.startTime * totalFrames(in) + currentFrame * in.duration, totalFrames(in)))

\* the test of the end of the video letting the end itself through
pastEndExclusive(currentTime, known, seconds) ==
    known /\ ~RatLE(currentTime, Rat(seconds, 1))

\* currentTime >= video.duration; video.duration is NaN until the metadata
\* of the element is known, and the comparison is false then
pastEnd(currentTime, known, seconds) ==
    known /\ RatLE(Rat(seconds, 1), currentTime)

Settled(c) == vPc[c] \in {"resolved", "rejected"}

\* this.createOutput(frames, outputFormat, quality, file).then(resolve)
\* .catch(reject), up to its first await.  Resolving or rejecting a promise
\* that is settled has no effect.
createOutput(c, frames) ==
    IF Settled(c) \/ vPc[c] = "output"
    THEN UNCHANGED <<vPc, vResult, vError>>
    ELSE IF Len(frames) = 0
    THEN /\ vPc' = [vPc EXCEPT ![c] = "rejected"]
         /\ vError' = [vError EXCEPT ![c] = "noframes"]
         /\ UNCHANGED vResult
    ELSE IF vIn[c].outputFormat = "gif"
    THEN /\ vPc' = [vPc EXCEPT ![c] = "resolved"]
         /\ vResult' = [vResult EXCEPT ![c] = [blob |-> frames[1], type |-> "image/png",
                                               frameCount |-> Len(frames)]]
         /\ UNCHANGED vError
    ELSE IF vIn[c].outputFormat = "webp"
    THEN /\ vPc' = [vPc EXCEPT ![c] = "output"]
         /\ UNCHANGED <<vResult, vError>>
    ELSE /\ vPc' = [vPc EXCEPT ![c] = "rejected"]
         /\ vError' = [vError EXCEPT ![c] = "format"]
         /\ UNCHANGED vResult

\* captureFrame() of call c on its video v (known: the metadata of v is
\* known), with currentFrame frames captured and seeking the seeks in
\* progress: a new seek of an element replaces the one in progress.
captureFrame(c, v, known, currentFrame, frames, seeking) ==
    IF \/ currentFrame >= totalFrames(vIn[c])
       \/ pastEnd(seekTime(vIn[c], currentFrame), known, vIn[v].length)
    THEN /\ createOutput(c, frames)
         /\ vSeeking' = seeking
         /\ UNCHANGED vSeeks
    ELSE /\ vSeeking' = [seeking EXCEPT ![v] = [time |-> seekTime(vIn[c], currentFrame),
                                                by |-> c]]
         /\ vSeeks' = [vSeeks EXCEPT ![c] =
                          Append(@, [video |-> v, time |-> seekTime(vIn[c], currentFrame),
                                     captured |-> Len(frames)])]
         /\ vPc' = [vPc EXCEPT ![c] = IF Settled(c) \/ @ = "output" THEN @ ELSE "sampling"]
         /\ UNCHANGED <<vResult, vError>>

\* processVideo(file, options) up to the return of its promise: a new video
\* element and a new canvas replace the ones the processor holds.
ProcessVideo ==
    /\ \E c \in VideoCalls :
         /\ vPc[c] = "idle"
         /\ \A b \in 1..(c - 1) : vPc[b] # "idle"
         /\ \E in \in VideoInputs : vIn' = [vIn EXCEPT ![c] = in]
         /\ vThis' = c
         /\ vPc' = [vPc EXCEPT ![c] = "loading"]
         /\ vReady' = [vReady EXCEPT ![c] = "loading"]
    /\ UNCHANGED <<vVideo, vFrame, vFrames, vToBlob, vSeeks, vResult, vError, vOnSeeked,
                   vSeeking, vTime, vCanvas>>
    /\ UNCHANGED videoRest

\* processVideo is called when every earlier call on the processor has settled
ProcessVideoInTurn ==
    /\ \A c \in VideoCalls : vPc[c] = "idle" \/ Settled(c)
    /\ ProcessVideo

\* the loadedmetadata event of element e: the handler processVideo gave it
\* runs processVideoFrames of call e, which takes this.videoElement and
\* this.canvas as they are now.  A currentTime that was set before the
\* metadata was known is sought now unless it is 0.
LoadedMetadata ==
    /\ \E e \in VideoCalls :
         /\ vReady[e] = "loading"
         /\ ~vIn[e].corrupt
         /\ vReady' = [vReady EXCEPT ![e] = "metadata"]
         /\ LET v == vThis
                known == v = e \/ vReady[v] = "metadata"
                seeking == [vSeeking EXCEPT ![e] = IF @.time = Rat(0, 1) THEN NoSeek ELSE @]
            IN  /\ vVideo' = [vVideo EXCEPT ![e] = v]
                /\ IF known
                   THEN \E dims \in calculateResizedDimensions(videoSize.width, videoSize.height,
                                        videoBox.maxWidth, videoBox.maxHeight, TRUE) :
                            vCanvas' = [vCanvas EXCEPT ![v] = dims]
                   ELSE vCanvas' = [vCanvas EXCEPT ![v] = [width |-> 0, height |-> 0]]
                /\ vOnSeeked' = [vOnSeeked EXCEPT ![v] = e]
                /\ captureFrame(e, v, known, 0, <<>>, seeking)
    /\ UNCHANGED <<vThis, vIn, vFrame, vFrames, vToBlob, vTime>>
    /\ UNCHANGED videoRest

\* the error event of element e: reject(new Error(...)) of call e
VideoError ==
    /\ \E e \in VideoCalls :
         /\ vReady[e] = "loading"
         /\ vIn[e].corrupt
         /\ vReady' = [vReady EXCEPT ![e] = "error"]
         /\ IF Settled(e)
            THEN UNCHANGED <<vPc, vError>>
            ELSE /\ vPc' = [vPc EXCEPT ![e] = "rejected"]
                 /\ vError' = [vError EXCEPT ![e] = "load"]
    /\ UNCHANGED <<vThis, vIn, vVideo, vFrame, vFrames, vToBlob, vSeeks, vResult, vOnSeeked,
                   vSeeking, vTime, vCanvas>>
    /\ UNCHANGED videoRest

\* the seek of element v completes and its seeked event runs video.onseeked:
\* ctx.drawImage(video, 0, 0, width, height); canvas.toBlob(callback, ...)
Seeked ==
    /\ \E v \in VideoCalls :
         /\ vSeeking[v] # NoSeek
         /\ vReady[v] = "metadata"
         /\ LET h == vOnSeeked[v]
                now == RatMin(vSeeking[v].time, Rat(vIn[v].length, 1))
            IN  /\ vTime' = [vTime EXCEPT ![v] = now]
                /\ vToBlob' = [vToBlob EXCEPT ![h] =
                                  Append(@, [video |-> vVideo[h], canvas |-> vVideo[h],
                                             time |-> now, index |-> vFrame[h],
                                             by |-> vSeeking[v].by])]
         /\ vSeeking' = [vSeeking EXCEPT ![v] = NoSeek]
    /\ UNCHANGED <<vThis, vPc, vIn, vVideo, vFrame, vFrames, vSeeks, vResult, vError, vReady,
                   vOnSeeked, vCanvas>>
    /\ UNCHANGED videoRest

\* the callback of canvas.toBlob: frames.push(blob); currentFrame++;
\* captureFrame()
VideoToBlobCallback ==
    /\ \E c \in VideoCalls :
         /\ vToBlob[c] # <<>>
         /\ vToBlob' = [vToBlob EXCEPT ![c] = Tail(@)]
         /\ vFrames' = [vFrames EXCEPT ![c] = Append(@, Head(vToBlob[c]))]
         /\ vFrame' = [vFrame EXCEPT ![c] = @ + 1]
         /\ captureFrame(c, vVideo[c], TRUE, vFrame[c] + 1,
                         Append(vFrames[c], Head(vToBlob[c])), vSeeking)
    /\ UNCHANGED <<vThis, vIn, vVideo, vReady, vOnSeeked, vTime, vCanvas>>
    /\ UNCHANGED videoRest

\* createOutput after its awaits for the 'webp' format: the first frame,
\* encoded again, and frames.length
VideoOutputEncoded ==
    /\ \E c \in VideoCalls :
         /\ vPc[c] = "output"
         /\ vPc' = [vPc EXCEPT ![c] = "resolved"]
         /\ vResult' = [vResult EXCEPT ![c] = [blob |-> vFrames[c][1], type |-> "image/webp",
                                               frameCount |-> Len(vFrames[c])]]
    /\ UNCHANGED <<vThis, vIn, vVideo, vFrame, vFrames, vToBlob, vSeeks, vError, vReady,
                   vOnSeeked, vSeeking, vTime, vCanvas>>
    /\ UNCHANGED videoRest

(***************************************************************************)
(* ImageCompressor.smartCompress and the presets                           *)
(* maxFileSize 0 in an options object stands for no maxFileSize property:  *)
(* compressImage reads the property with the default 0.                    *)
(***************************************************************************)
Levels == {"low", "medium", "high", "extreme"}

\* this.compressionLevels = {...} of the constructor
presets ==
    [level \in Levels |->
        CASE level = "low" ->
                 [quality |-> Q(90), maxWidth |-> 1920, maxHeight |-> 1080, maxFileSize |-> 0]
          [] level = "medium" ->
                 [quality |-> Q(80), maxWidth |-> 1280, maxHeight |-> 720, maxFileSize |-> 0]
          [] level = "high" ->
                 [quality |-> Q(60), maxWidth |-> 800, maxHeight |-> 600, maxFileSize |-> 0]
          [] level = "extreme" ->
                 [quality |-> Q(40), maxWidth |-> 640, maxHeight |-> 480, maxFileSize |-> 0]]

MiB == 1024 * 1024

\* files on both sides of each size threshold of smartCompress
SmartFiles ==
    [name : {"a.jpg"}, type : {"image/jpeg"},
     size : {MiB, MiB + 1, 2 * MiB, 2 * MiB + 1, 5 * MiB, 5 * MiB + 1},
     width : {BigSide}, height : {BigSide}, corrupt : BOOLEAN]

NoSmartFile == [name |-> "", type |-> "", size |-> 0, width |-> 0, height |-> 0,
                corrupt |-> FALSE]
NoSmartOptions == [quality |-> 0, maxWidth |-> 0, maxHeight |-> 0, maxFileSize |-> 0]

InitSmart ==
    /\ compressionLevels = presets
    /\ sPc = "none"
    /\ sIn = [file |-> NoSmartFile, targetSize |-> 0]
    /\ sOptions = NoSmartOptions
    /\ sCalls = 0

\* the level whose options object smartCompress takes, "none" when it makes
\* an object of its own
levelOf(info) ==
    IF info.size > 5 * MiB THEN "high"
    ELSE IF info.size > 2 * MiB THEN "medium"
    ELSE IF info.size > MiB THEN "low"
    ELSE "none"

\* options.maxFileSize = targetSize on the options object of the level: the
\* object is the one this.compressionLevels holds
writeToLevel(levels, level, target) ==
    [levels EXCEPT ![level] = [@ EXCEPT !.maxFileSize = target]]

\* smartCompress(file, targetSize): getImageInfo, the choice of the options,
\* options.maxFileSize = targetSize when a targetSize is given, and the call
\* of compressImage(file, options)
SmartCompress ==
    /\ sCalls < MaxSmart
    /\ sCalls' = sCalls + 1
    /\ \E file \in SmartFiles, target \in {kib * 1024 : kib \in 0..MaxTarget} :
         /\ sIn' = [file |-> file, targetSize |-> target]
         /\ IF file.corrupt
            THEN /\ sPc' = "threw"
                 /\ sOptions' = NoSmartOptions
                 /\ UNCHANGED compressionLevels
            ELSE LET level == levelOf(file)
                     options == IF level = "none"
                                THEN [quality |-> Q(95), maxWidth |-> file.width,
                                      maxHeight |-> file.height, maxFileSize |-> 0]
                                ELSE compressionLevels[level]
                 IN  /\ sPc' = "compress"
                     /\ sOptions' = IF target # 0
                                    THEN [options EXCEPT !.maxFileSize = target]
                                    ELSE options
                     /\ compressionLevels' =
                           IF target # 0 /\ level # "none"
                           THEN writeToLevel(compressionLevels, level, target)
                           ELSE compressionLevels
    /\ UNCHANGED smartRest

\* a runtime in which nothing of the page is involved
InitQuietRuntime ==
    /\ runtimeFormats = {"image/png", "image/jpeg", "image/webp", "image/avif"}
    /\ progressElement = "html"
    /\ progressShown = <<>>

InitParts ==
    /\ InitResize /\ InitCompress /\ InitBatch /\ InitPage /\ InitEntry
    /\ InitCropper /\ InitMark /\ InitGif /\ InitExif /\ InitVideo /\ InitSmart

InitAll == InitParts /\ InitRuntime

InitQuiet == InitParts /\ InitQuietRuntime

(***************************************************************************)
(* Specifications                                                          *)
(***************************************************************************)
NextBatch ==
    \/ BatchCall
    \/ BatchItemCall
    \/ BatchItemSettles
    \/ BatchReturn

SpecBatch == InitAll /\ [][NextBatch]_vars

NextPage ==
    \/ HandleFileSelection
    \/ ProcessConvert
    \/ BatchItemCall
    \/ BatchItemSettles
    \/ BatchReturn
    \/ ProcessConvertResumes

SpecPage == InitAll /\ [][NextPage]_vars

\* the page with every handler that touches the selection or the buttons
NextApp ==
    \/ HandleFileSelection
    \/ RemoveFile
    \/ ClearAllFiles
    \/ SwitchTab
    \/ WindowResize
    \/ ProcessConvert
    \/ ProcessCompress
    \/ ProcessWatermark
    \/ BatchItemCall
    \/ BatchItemSettles
    \/ BatchReturn
    \/ ProcessConvertResumes
    \/ ProcessCompressResumes
    \/ ProcessWatermarkResumes
    \/ ProcessConvertCatches
    \/ ProcessCompressCatches
    \/ ProcessWatermarkCatches

SpecApp == InitQuiet /\ [][NextApp]_vars

NextEntry ==
    \/ EnterConvertImage
    \/ EnterCompressImage
    \/ EnterInitCrop
    \/ EnterAddWatermark
    \/ EnterCreateRepeatingWatermark
    \/ EnterProcessGIF
    \/ EntryDecodeSettles

SpecEntry == InitQuiet /\ [][NextEntry]_vars

NextResize == CallResize /\ UNCHANGED <<compressVars, runtimeVars, batchVars, pageVars, entryVars, toolVars>>

SpecResize == InitQuiet /\ [][NextResize]_vars

NextCompress ==
    /\ \/ CompressImage
       \/ CompressImageLoadFails
       \/ CompressImageLoaded
       \/ CompressFirstEncode
       \/ IterateCompression
       \/ SearchIteration
       \/ SearchDone
       \/ ResizeIteration
       \/ ResizeFloor
    /\ UNCHANGED <<resizeVars, runtimeVars, batchVars, pageVars, entryVars, toolVars>>

SpecCompress == InitQuiet /\ [][NextCompress]_vars

\* Scheduling: an encode that was started completes (the toBlob callback runs),
\* so a step of the call that is enabled is eventually taken.
SpecCompressFair == SpecCompress /\ WF_vars(NextCompress)


NextCrop ==
    \/ InitCrop
    \/ MoveCropBox
    \/ SetAspectRatio
    \/ ResetCrop
    \/ SelectAll
    \/ CropInputChange
    \/ ApplyCrop
    \/ ProcessCrop

SpecCrop == InitQuiet /\ [][NextCrop]_vars

NextMark ==
    \/ AddTextWatermark
    \/ AddImageWatermark

SpecMark == InitQuiet /\ [][NextMark]_vars

NextGif ==
    \/ ExtractFrames
    \/ ExtractFramesOnLoad
    \/ ToBlobCallback
    \/ GetGIFInfo

SpecGif == InitQuiet /\ [][NextGif]_vars

NextExif ==
    \/ ProcessEXIFData
    \/ GetGPSCoordinates

SpecExif == InitQuiet /\ [][NextExif]_vars

\* processVideo calls on one processor, each after the earlier one settled
NextVideo ==
    \/ ProcessVideoInTurn
    \/ LoadedMetadata
    \/ VideoError
    \/ Seeked
    \/ VideoToBlobCallback
    \/ VideoOutputEncoded

NextSmart == SmartCompress

SpecSmart == InitQuiet /\ [][NextSmart]_vars

SpecVideo == InitQuiet /\ [][NextVideo]_vars

\* processVideo calls on one processor that may overlap
NextVideoOverlap ==
    \/ ProcessVideo
    \/ LoadedMetadata
    \/ VideoError
    \/ Seeked
    \/ VideoToBlobCallback
    \/ VideoOutputEncoded

SpecVideoOverlap == InitQuiet /\ [][NextVideoOverlap]_vars

Abs(x) == IF x < 0 THEN -x ELSE x

\* C8: with keepAspectRatio the returned (w, h) keeps the original ratio to
\* within one pixel: |h - w*oh/ow| <= 1 or |w - h*ow/oh| <= 1.
C8_AspectWithinOnePixel ==
    (rPc = "done" /\ rIn.keep) =>
        \/ Abs(rOut.height * rIn.ow - rOut.width * rIn.oh) <= rIn.ow
        \/ Abs(rOut.width * rIn.oh - rOut.height * rIn.ow) <= rIn.oh

\* a clamp acted and the rounding made the ratio inexact
C8_Witness ==
    /\ rPc = "done" /\ rIn.keep
    /\ rOut.width < rIn.ow
    /\ rOut.height * rIn.ow # rOut.width * rIn.oh

(***************************************************************************)
(* Properties of compressImage                                             *)
(***************************************************************************)
\* some quality in [0.1, Q0] yields a size within the ceiling on the starting canvas
SomeQualityFits ==
    \E p \in 10..100 : Q(p) <= cOpts.quality /\ EncSize(cEnc, Q(p)) <= targetSize

\* C1: with a byte ceiling and an encoder that is non-decreasing in the
\* quality, if some quality in [0.1, Q0] meets the ceiling on the starting
\* canvas then the returned blob is within the ceiling.
C1_CeilingMet ==
    (cPc = "done" /\ cOpts.maxFileSize > 0 /\ SomeQualityFits) => cResult.size <= targetSize

\* the call returned what the quality search found (no downscale was tried)
ReturnedBySearch == cPc = "done" /\ cTried # {} /\ cShrunk = <<>>

\* C2: the quality search returns the highest-quality blob among the blobs it
\* encoded that are within the ceiling.
C2_HighestQualityCandidate ==
    ReturnedBySearch =>
        \A b \in cTried : b.size <= targetSize => b.quality <= cResult.quality

\* no quality and no downscale step met the ceiling
NothingMetCeiling ==
    /\ cPc \in {"done", "threw"}
    /\ cShrunk # <<>>
    /\ ~(cPc = "done" /\ ScaleAboveFloor(cScale))

\* C3: from a starting canvas with width >= 1 and height >= 1, when nothing
\* meets the ceiling the call does not throw and returns the most-downscaled
\* canvas encoded at quality 0.1; every canvas encoded on the way has pixels.
C3_FloorFallbackNoThrow ==
    (cCanvas.width >= 1 /\ cCanvas.height >= 1) =>
        /\ \A i \in 1..Len(cShrunk) : cShrunk[i].width >= 1 /\ cShrunk[i].height >= 1
        /\ NothingMetCeiling =>
              /\ cPc = "done"
              /\ cResult.quality = QMin
              /\ cResult.width = cShrunk[Len(cShrunk)].width
              /\ cResult.height = cShrunk[Len(cShrunk)].height

\* C4: whatever sizes the encoder returns, the quality loop runs at most 5
\* iterations and the downscale loop at most 11, and the call ends (returns or
\* throws) provided each encode completes.
C4_BoundedEncodes ==
    /\ [](cQIters <= 5 /\ cRIters <= 11 /\ cEncodes <= 2 + 5 + 11 + 1)
    /\ <>(cPc \in {"done", "threw"})

\* both loops ran their full length and the floor-quality blob was returned
C4_Witness ==
    /\ cPc = "done"
    /\ cQIters = 5
    /\ cRIters = 11
    /\ cResult.quality = QMin

(***************************************************************************)
(* Properties of the batch loops                                           *)
(***************************************************************************)
\* C5: a batch call returns results.length + errors.length = files.length and
\* success + failed = total, whatever items fail.
C5_BatchCounts ==
    bPc = "done" =>
        /\ Len(bOutcome.results) + Len(bOutcome.errors) = Len(bFiles)
        /\ bOutcome.success + bOutcome.failed = bOutcome.total

\* how often the file name occurs in a list of results / errors
Occurrences(list, name) == Cardinality({k \in 1..Len(list) : list[k].file = name})

\* C6: every input file is in exactly one of results and errors, the errors
\* are exactly the files whose single-file call threw, and a file that did
\* not throw is in results whatever its siblings did.
C6_ExactlyOneList ==
    bPc = "done" =>
        /\ \A i \in 1..Len(bFiles) :
              Occurrences(bOutcome.results, bFiles[i].name)
                + Occurrences(bOutcome.errors, bFiles[i].name) = 1
        /\ bOutcome.failed = Cardinality(bThrew)
        /\ {bOutcome.errors[k].file : k \in 1..Len(bOutcome.errors)}
              = {bFiles[i].name : i \in bThrew}
        /\ \A i \in 1..Len(bFiles) :
              i \notin bThrew => Occurrences(bOutcome.results, bFiles[i].name) = 1

(***************************************************************************)
(* Properties of the entry points and of processConvert                    *)
(***************************************************************************)
\* C9: every entry point rejects a file of an unsupported MIME type and a
\* file above 50 MiB before an image element is created for it.
C9_RejectBeforeDecode ==
    (ePc # "idle" /\ (eFile.type \notin supportedFormats \/ eFile.size > maxFileSize)) =>
        (~eDecodeStarted /\ ePc = "threw")

\* C10: when the runtime cannot encode the target format, processConvert
\* still ends with a batch outcome that covers every selected file and holds
\* an errors entry with the name of each of them.
C10_UnsupportedTargetPerFile ==
    (uPc = "done" /\ Len(uFiles) > 0 /\ ~checkFormatSupport(uTarget)) =>
        /\ bOutcome # NoOutcome
        /\ bOutcome.total = Len(uFiles)
        /\ \A i \in 1..Len(uFiles) : Occurrences(bOutcome.errors, uFiles[i].name) >= 1

(***************************************************************************)
(* Properties of the cropper                                               *)
(***************************************************************************)
\* the crop rectangle lies fully inside the display canvas
BoxInsideCanvas ==
    /\ cropBox.x >= 0
    /\ cropBox.y >= 0
    /\ cropBox.x + cropBox.width <= cropCanvas.width * CropUnit
    /\ cropBox.y + cropBox.height <= cropCanvas.height * CropUnit

\* C11: after initCrop and any sequence of moveCropBox, setAspectRatio,
\* resetCrop and selectAll the crop rectangle lies fully inside the display
\* canvas.
C11_BoxInsideCanvas ==
    (kPc = "ready" /\ ~kEdited) => BoxInsideCanvas

\* C12: applyCrop maps every crop rectangle that lies inside the display
\* canvas to a source rectangle that lies inside the source image.
C12_SourceRectInsideImage ==
    (kLast = "applyCrop" /\ BoxInsideCanvas) =>
        /\ kCrop.cropX >= 0
        /\ kCrop.cropY >= 0
        /\ kCrop.cropX + kCrop.cropWidth <= kImage.width
        /\ kCrop.cropY + kCrop.cropHeight <= kImage.height

\* C13: while an aspect-ratio lock is set, after every edit of the crop width
\* the height is width / ratio; with 'free' the width edit leaves the height
\* as it was.
C13_WidthEditKeepsRatio ==
    [][(kLast' = "cropWidth" /\ kSteps' # kSteps) =>
          IF aspectRatio' = "null"
          THEN cropBox'.height = cropBox.height
          ELSE cropBox'.width * ratios(aspectRatio').d
                 = cropBox'.height * ratios(aspectRatio').n]_vars

(***************************************************************************)
(* Properties of the watermark position                                    *)
(***************************************************************************)
\* C14: for the five positions, rotation 0, padding >= 0 and a watermark no
\* larger than the canvas, the rectangle the text or the image is drawn in
\* lies inside [0, canvasWidth] x [0, canvasHeight].
C14_WatermarkInsideCanvas ==
    (/\ mPc = "done"
     /\ mIn.position \in Positions
     /\ mIn.rotation = 0
     /\ RatLE(mIn.width, Rat(mIn.canvas.width, 1))
     /\ RatLE(mIn.height, Rat(mIn.canvas.height, 1))) =>
        /\ RatLE(Rat(0, 1), mBox.left)
        /\ RatLE(mBox.right, Rat(mIn.canvas.width, 1))
        /\ RatLE(Rat(0, 1), mBox.top)
        /\ RatLE(mBox.bottom, Rat(mIn.canvas.height, 1))

(***************************************************************************)
(* Order of the work inside a batch                                        *)
(***************************************************************************)
\* the position in the input list of the file an entry was recorded for
InputIndex(entry) == CHOOSE i \in 1..Len(bFiles) : bFiles[i].name = entry.file

\* the entries of a list are in the order of the input list
InInputOrder(list) ==
    \A j, k \in 1..Len(list) : j < k => InputIndex(list[j]) < InputIndex(list[k])

\* the file at index i has an entry in results or in errors
Recorded(i) ==
    Occurrences(bResults, bFiles[i].name) + Occurrences(bErrors, bFiles[i].name) >= 1

\* C15: within one batch call the files are processed one at a time in index
\* order: while file i is the current one every earlier file has its result
\* or error recorded and no later file has been touched, so results and
\* errors are each in input order.
C15_OneAtATimeInOrder ==
    bPc \in {"loop", "await", "done"} =>
        /\ \A i \in 1..Len(bFiles) : (i < bI) <=> Recorded(i)
        /\ InInputOrder(bResults)
        /\ InInputOrder(bErrors)
        /\ bPc = "done" => (bOutcome.results = bResults /\ bOutcome.errors = bErrors)

\* a batch of three files returned with two results and an error between them
C15_Witness ==
    /\ bPc = "done"
    /\ Len(bFiles) = 3
    /\ Len(bOutcome.results) = 2
    /\ Len(bOutcome.errors) = 1
    /\ bOutcome.errors[1].file = bFiles[2].name

(***************************************************************************)
(* Properties of the GIF frames                                            *)
(***************************************************************************)
\* n is the least integer with n * W >= H, i.e. ceil(H / W)
IsCeilOfRatio(n, H, W) == (n - 1) * W < H /\ H <= n * W

\* C16: extractFrames on a GIF of natural size W x H resolves with exactly
\* ceil(H / W) frames, every frame number 1..ceil(H/W) exactly once, and
\* getGIFInfo reports the same frameCount; 100 x 300 gives 3.
C16_FrameCount ==
    /\ gPc = "resolved" =>
          /\ IsCeilOfRatio(Len(gResolved), gImage.height, gImage.width)
          /\ \A n \in 1..Len(gResolved) :
                Cardinality({k \in 1..Len(gResolved) : gResolved[k].frame = n}) = 1
          /\ gInfo # -1 => gInfo = Len(gResolved)
          /\ (gImage.width = 100 /\ gImage.height = 300) => Len(gResolved) = 3
    /\ gInfo # -1 => IsCeilOfRatio(gInfo, gImage.height, gImage.width)

\* a GIF whose height is not a multiple of its width resolved with its frames
\* in another order than they were drawn, and getGIFInfo has answered
C16_Witness ==
    /\ gPc = "resolved"
    /\ gImage.height % gImage.width # 0
    /\ Len(gResolved) >= 2
    /\ gResolved[1].frame # 1
    /\ gInfo = Len(gResolved)

(***************************************************************************)
(* Errors of processGIF                                                    *)
(***************************************************************************)
\* processGIF throws for this file before it dispatches to an operation
GifRejected(file, operation) == file.type # "image/gif" \/ operation \notin GifOperations

\* the errors entries recorded for the file at index i
ErrorsOf(i) == {k \in 1..Len(bErrors) : bErrors[k].file = bFiles[i].name}

\* C17: processGIF rejects a file that is not image/gif before any decode or
\* dispatch, whatever the operation key, and rejects an unknown operation key
\* on a GIF; processGIFs records either failure against that file only and
\* still processes the other files.
C17_GifRejections ==
    /\ [][(bOp' = "processGIFs" /\ bPc' = "await") =>
             ~GifRejected(bFiles'[bI'], bOperation')]_vars
    /\ []((bOp = "processGIFs" /\ bPc = "done") =>
            \A i \in 1..Len(bFiles) :
               /\ Recorded(i)
               /\ GifRejected(bFiles[i], bOperation) =>
                     /\ Cardinality(ErrorsOf(i)) = 1
                     /\ Occurrences(bResults, bFiles[i].name) = 0
                     /\ \A k \in ErrorsOf(i) :
                           bErrors[k].error = (IF bFiles[i].type # "image/gif"
                                               THEN "format" ELSE "operation")
               /\ (~GifRejected(bFiles[i], bOperation) /\ ~bFiles[i].corrupt) =>
                     Occurrences(bResults, bFiles[i].name) = 1)

\* processGIFs returned for a GIF, a JPEG and another GIF: the JPEG alone failed
C17_Witness ==
    /\ bOp = "processGIFs" /\ bPc = "done"
    /\ bOperation \in GifOperations
    /\ Len(bFiles) = 3
    /\ bFiles[2].type = "image/jpeg"
    /\ Len(bOutcome.results) = 2
    /\ Len(bOutcome.errors) = 1
    /\ bOutcome.errors[1] = [file |-> bFiles[2].name, error |-> "format"]

(***************************************************************************)
(* Properties of the EXIF presentation data                                *)
(***************************************************************************)
\* d + m/60 + s/3600 of a [d, m, s] array, negated for the references S and W
SignedDegrees(dms, ref) ==
    LET dd == dms.v[1] * 3600 + dms.v[2] * 60 + dms.v[3]
    IN  Rat(IF ref.v \in {<<"S">>, <<"W">>} THEN -dd ELSE dd, 3600)

\* C18: for raw tags with GPSLatitude = [d, m, s], GPSLongitude = [d', m', s']
\* and their references, getGPSCoordinates on the processed data returns the
\* signed decimal degrees of both and never null coordinates.
C18_SignedDecimalDegrees ==
    (xPc = "located" /\ GpsTags \subseteq DOMAIN xRaw) =>
        /\ xCoords.t = "object"
        /\ xCoords.v.latitude
             = Num(SignedDegrees(xRaw["GPSLatitude"], xRaw["GPSLatitudeRef"]))
        /\ xCoords.v.longitude
             = Num(SignedDegrees(xRaw["GPSLongitude"], xRaw["GPSLongitudeRef"]))

\* C19: every raw tag that is not a known tag is in one of the categories of
\* the processed data, its value rendered as a raw string.
C19_UnknownTagsPassThrough ==
    xPc \in {"processed", "located"} =>
        \A tag \in DOMAIN xRaw \ supportedTags :
            \E category \in Categories :
                /\ tag \in DOMAIN xData[category]
                /\ xData[category][tag].value = String(xRaw[tag])

(***************************************************************************)
(* The scale of compressByResizing                                         *)
(***************************************************************************)
\* the canvas encoded before the k-th downscaled one
ShrunkFrom(k) == IF k = 1 THEN cCanvas ELSE cShrunk[k - 1]

\* C20: compressByResizing shrinks by the fixed factor 0.9 per step relative
\* to the previous step and never encodes a canvas below 0.3 of the scale of
\* the canvas it was given (each to within a pixel of rounding), the canvas
\* of the final floor-quality encode included.
C20_FixedShrinkAboveFloor ==
    /\ \A k \in 1..Len(cShrunk) :
          /\ Abs(10 * cShrunk[k].width - 9 * ShrunkFrom(k).width) <= 10
          /\ 10 * (cShrunk[k].width + 1) > 3 * cCanvas.width
    /\ (cPc = "done" /\ cShrunk # <<>>) => 10 * (cResult.width + 1) > 3 * cCanvas.width

(***************************************************************************)
(* Properties of the page while a batch is in flight                       *)
(***************************************************************************)
\* C21: a batch started by processConvert, processCompress or
\* processWatermark never rejects as a whole, and it returns with every file
\* that was selected when it started in exactly one of results and errors and
\* with success + failed = total, whatever removeFile, clearAllFiles and
\* handleFileSelection do between its awaits.
C21_SelectedFilesExactlyOnce ==
    /\ bPc # "rejected"
    /\ (bPc = "done" /\ uPc \in {"await", "done"}) =>
          /\ \A i \in 1..Len(uFiles) :
                Occurrences(bOutcome.results, uFiles[i].name)
                  + Occurrences(bOutcome.errors, uFiles[i].name) = 1
          /\ bOutcome.success + bOutcome.failed = bOutcome.total

\* C22: while the batch a process button started is in flight, that button
\* stays disabled, whatever UI events call updateUI in between.
C22_ButtonDisabledInFlight ==
    (uPc = "await" /\ bPc \in {"loop", "await"}) => btnDisabled

(***************************************************************************)
(* Properties of the VideoProcessor                                        *)
(***************************************************************************)
\* C23: of two processVideo calls on one VideoProcessor that overlap, each
\* seeks only the video element it created and draws each of its frames from
\* that element into the canvas it created.
C23_OwnVideoOwnCanvas ==
    \A c \in VideoCalls :
        /\ \A k \in 1..Len(vSeeks[c]) : vSeeks[c][k].video = c
        /\ \A k \in 1..Len(vFrames[c]) : vFrames[c][k].video = c /\ vFrames[c][k].canvas = c
        /\ \A k \in 1..Len(vToBlob[c]) : vToBlob[c][k].video = c /\ vToBlob[c][k].canvas = c

(***************************************************************************)
(* Properties of the moves and of the extraction of the cropper            *)
(***************************************************************************)
\* where a move by delta leaves one coordinate of a box of the given size
MovedOrBlocked(coordinate, delta, size, canvasSide) ==
    IF /\ coordinate + delta * CropUnit >= 0
       /\ coordinate + delta * CropUnit + size <= canvasSide * CropUnit
    THEN coordinate + delta * CropUnit
    ELSE coordinate

\* C24: moveCropBox(deltaX, deltaY) leaves the width and the height of the
\* rectangle as they were, and on each axis by itself it applies the whole
\* delta when the moved rectangle stays inside the canvas on that axis and
\* leaves the coordinate as it was otherwise.
C24_MoveAxisByAxis ==
    kLast = "moveCropBox" =>
        /\ cropBox.width = kMove.from.width
        /\ cropBox.height = kMove.from.height
        /\ cropBox.x = MovedOrBlocked(kMove.from.x, kMove.deltaX, kMove.from.width,
                                      cropCanvas.width)
        /\ cropBox.y = MovedOrBlocked(kMove.from.y, kMove.deltaY, kMove.from.height,
                                      cropCanvas.height)

\* a move with both deltas set that is blocked on the x axis and applied on
\* the y axis
C24_Witness ==
    /\ kLast = "moveCropBox"
    /\ kMove.deltaX # 0 /\ kMove.deltaY # 0
    /\ cropBox.x = kMove.from.x
    /\ cropBox.y = kMove.from.y + kMove.deltaY * CropUnit

\* C25: the rectangle processCrop maps to source coordinates and extracts is
\* the rectangle the cropper held for that image when processCrop was called,
\* as the drags, the aspect ratio, selectAll and the input edits before it
\* left it.
C25_ExtractsCurrentRectangle ==
    (kLast = "processCrop" /\ kFound.image = kImage) => cropBox = kFound.box

\* the frames of call c that were drawn, in order: captured or with their
\* toBlob callback outstanding
Drawn(c) == vFrames[c] \o vToBlob[c]

\* C26: in processVideoFrames at most one seek is outstanding at any time:
\* the seek for frame i + 1 is issued only when frame i's blob has been
\* appended, frame i is drawn when the seek to its time has completed, and
\* the captured frames are in strictly increasing time order.
C26_OneSeekAtATime ==
    \A c \in VideoCalls :
        /\ Len(vSeeks[c]) <= Len(vFrames[c]) + 1
        /\ \A k \in 1..Len(vSeeks[c]) : vSeeks[c][k].captured = k - 1
        /\ Len(Drawn(c)) <= Len(vSeeks[c])
        /\ \A k \in 1..Len(Drawn(c)) :
              /\ Drawn(c)[k].index = k - 1
              /\ Drawn(c)[k].by = c
              /\ Drawn(c)[k].time = vSeeks[c][k].time
              /\ vSeeking[vSeeks[c][k].video] = NoSeek \/ k < Len(vSeeks[c])
        /\ \A k \in 1..(Len(vFrames[c]) - 1) :
              ~RatLE(vFrames[c][k + 1].time, vFrames[c][k].time)

\* the second call on the processor has resolved with four frames captured
C26_Witness ==
    /\ vPc[MaxCalls] = "resolved"
    /\ Len(vFrames[MaxCalls]) = 4
    /\ Len(vSeeks[MaxCalls]) = 4

\* startTime + i * (duration / floor(duration * fps)) for the frames i, i + 1,
\* ... below floor(duration * fps), up to the first that is not below the
\* length of the video
RECURSIVE TimesBelowLength(_, _)
TimesBelowLength(in, i) ==
    LET count == (in.duration * in.fpsHalves) \div 2
    IN  IF i >= count THEN <<>>
        ELSE LET time == RatAdd(Rat(in.startTime, 1), Rat(i * in.duration, count))
             IN  IF RatLE(Rat(in.length, 1), time) THEN <<>>
                 ELSE <<time>> \o TimesBelowLength(in, i + 1)

\* C27: processVideoFrames captures exactly the frames i in
\* 0..floor(duration * fps) - 1 whose seek time is below the length of the
\* video, up to the first that is not; the result's frameCount is their
\* number and its blob the first of them; with no such frame the call is
\* rejected with the no-frames error as soon as the metadata is known.
C27_FramesBelowLength ==
    \A c \in VideoCalls :
        LET times == TimesBelowLength(vIn[c], 0)
        IN  /\ Len(vFrames[c]) <= Len(times)
            /\ \A k \in 1..Len(vFrames[c]) : vFrames[c][k].time = times[k]
            /\ (Settled(c) \/ vPc[c] = "output") =>
                  (vError[c] = "load" \/ Len(vFrames[c]) = Len(times))
            /\ vPc[c] = "resolved" =>
                  /\ vResult[c].frameCount = Len(times)
                  /\ vResult[c].blob = vFrames[c][1]
                  /\ vResult[c].blob.time = times[1]
            /\ (times = <<>> /\ vReady[c] = "metadata") =>
                  (vPc[c] = "rejected" /\ vError[c] = "noframes")

\* a call that stopped at the end of the video, with two of its four frames
C27_Witness ==
    \E c \in VideoCalls :
        /\ vPc[c] = "resolved"
        /\ totalFrames(vIn[c]) = 4
        /\ vResult[c].frameCount = 2

(***************************************************************************)
(* Properties of smartCompress                                             *)
(***************************************************************************)
\* C28: smartCompress leaves the presets in compressionLevels as the
\* constructor made them, and a smartCompress call made without a targetSize
\* gives compressImage no byte ceiling (maxFileSize 0), whatever targetSize
\* the calls before it were given.
C28_PresetsUnchanged ==
    /\ compressionLevels = presets
    /\ (sPc = "compress" /\ sIn.targetSize = 0) => sOptions.maxFileSize = 0

(***************************************************************************)
(* Properties of the selection                                             *)
(***************************************************************************)
\* C29: after any sequence of handleFileSelection, removeFile and
\* clearAllFiles, window.selectedFiles and app.selectedFiles hold the same
\* sequence of files, and every file in it passes validateFile (a supported
\* MIME type and a size of at most 50 MiB).
C29_SelectionsAgree ==
    /\ winSelectedFiles = appSelectedFiles
    /\ \A i \in 1..Len(appSelectedFiles) :
          /\ validateFile(appSelectedFiles[i]) = "none"
          /\ appSelectedFiles[i].type \in supportedFormats
          /\ appSelectedFiles[i].size <= 50 * 1024 * 1024

\* a selection of three files that all passed, of which removeFile has taken
\* the first two
C29_Witness ==
    /\ Len(appSelectedFiles) = 1
    /\ appSelectedFiles[1].name = "c.jpg"
    /\ winSelectedFiles = appSelectedFiles
    /\ \A k \in 1..Len(notifications) : notifications[k].type # "error"

(***************************************************************************)
(* Properties of the resized dimensions                                    *)
(***************************************************************************)
\* C30: calculateResizedDimensions returns width >= 1 and height >= 1 for
\* every originalWidth >= 1, originalHeight >= 1 and positive maximum
\* dimensions, so the canvas made from its result has a non-zero area.
C30_DimensionsAtLeastOne ==
    (rPc = "done" /\ rIn.ow >= 1 /\ rIn.oh >= 1 /\ rIn.mw >= 1 /\ rIn.mh >= 1) =>
        /\ rOut.width >= 1
        /\ rOut.height >= 1

====
